---- MODULE Spec2Model ----
(***************************************************************************)
(* The channel dispatcher of amqprs (api/channel/dispatcher.rs) as a state *)
(* machine: one dispatcher task with its two input queues, the API tasks   *)
(* that issue management commands, and the broker that sends frames.       *)
(***************************************************************************)
EXTENDS Integers, Sequences, FiniteSets, TLC

\* ------------------------------------------------------------------ bounds
\* Method frames the broker sends on the channel (the content header and
\* body frames a method calls for are not counted).
MaxMethods == 2
\* Management commands the API tasks issue.
MaxCmds == 2
\* Largest body-size a content header declares.
MaxBodySize == 2
\* Items the inbound queue and the management queue hold (both are bounded
\* mpsc queues; a sender waits while its queue is full).
InboundCap == 1
MgmtCap == 1
\* Items the queue of a consumer sink and of a basic-get sink hold (bounded
\* mpsc queues as well).
SinkCap == 1
GetSinkCap == 1

\* ------------------------------------------------------------ value domains
\* channel.channel_id() of the one channel modelled
ChannelId == 1

Tags == {"T1", "T2"}
\* expected reply headers of the synchronous-response arm (two of the list)
SyncHeaders == {"DeclareQueueOk", "QosOk"}
CloseChannelOkHeader == "CloseChannelOk"
RpcHeaders == SyncHeaders \cup {CloseChannelOkHeader}
\* channel.close reply-code / reply-text pairs the broker uses
CloseReasons == {<<404, "NOT_FOUND">>, <<406, "PRECONDITION_FAILED">>}
\* asynchronous server requests the dispatcher has no handler for
AsyncRequests == {"Cancel", "Ack"}
\* What a send finds at a queue the whole connection shares (the writer's
\* queue, the connection manager's queue): room, a full queue, or the
\* receiver gone.
QueueStates == {"room", "full", "closed"}

\* Option<T>: None is the empty sequence, Some(x) the one-element sequence.
NoneV == <<>>
Some(x) == <<x>>
IsSome(o) == o # <<>>
Unwrap(o) == o[1]

EmptyMap == [k \in {} |-> 0]
MapInsert(m, k, v) == [x \in DOMAIN m \cup {k} |-> IF x = k THEN v ELSE m[x]]
MapRemove(m, k) == [x \in DOMAIN m \ {k} |-> m[x]]

\* The i-th byte of the body of message id.
BodyByte(id, i) == 10 * id + i

\* ------------------------------------------------------------------- state
VARIABLES
    \* dispatcher_mgmt_rx and dispatcher_rx: queued items and "all senders dropped"
    mgmt_q, mgmt_closed, inbound_q, inbound_closed,
    \* fields of ChannelDispatcher and the local message_buffer
    consumers, get_content_responder, responders, callback, state, message_buffer,
    \* channel open flag (channel.set_open_state)
    is_open,
    \* position of the dispatcher task: "running" (at the select), suspended
    \* in a send to a full queue ("drain_send", "consumer_send", "get_send",
    \* "outgoing_send", "conn_mgmt_send") or in the callback's close handler
    \* ("callback_await"), "exited" (task finished) or "panicked" (task
    \* aborted by a panic); pending is the item a suspended send holds and
    \* where it goes
    pc, pending,
    \* what the dispatcher has sent: frames to the writer (outgoing_tx) and
    \* commands to the connection manager (conn_mgmt_tx)
    outgoing, conn_mgmt,
    \* receiving ends: consumer sinks and basic-get sinks (q is what their
    \* queue holds, got what the receiver has taken out), one-shot waiters
    sinks, get_sinks, waiters,
    \* the broker's side of the channel, and the API's pending requests
    wire, requests,
    \* observation: the select branch the last dispatcher step took and the
    \* effects of that step in program order
    selected, log,
    \* method frames sent and commands issued so far
    nmethods, ncmds,
    \* the connection seen as a whole (reader, one dispatcher and one consumer
    \* sink per channel): frames the socket holds, the frame the reader is
    \* dispatching, and per channel the inbound queue, the message the
    \* dispatcher is sending and the sink
    bp_socket, bp_reader, bp_inbound, bp_disp, bp_sink, bp_arrived,
    \* a call into the AMQP types (amqp_serde/types.rs): the function called
    \* with its argument, and what it has returned
    ty_in, ty_out, ty_back

queue_vars == <<mgmt_q, mgmt_closed, inbound_q, inbound_closed>>
disp_vars == <<consumers, get_content_responder, responders, callback, state,
               message_buffer, is_open, pc, pending, outgoing, conn_mgmt, selected,
               log>>
recv_vars == <<sinks, get_sinks, waiters>>
env_vars == <<wire, requests, nmethods, ncmds>>
bp_vars == <<bp_socket, bp_reader, bp_inbound, bp_disp, bp_sink, bp_arrived>>
ty_vars == <<ty_in, ty_out, ty_back>>
other_vars == <<bp_vars, ty_vars>>
vars == <<queue_vars, disp_vars, recv_vars, env_vars, bp_vars, ty_vars>>

\* ConsumerResource::new
NewConsumerResource == [fifo |-> <<>>, tx |-> NoneV]

EmptyBuffer == [deliver |-> NoneV, basic_properties |-> NoneV, content |-> NoneV]

\* ChannelDispatcher::new and the start of the spawned task
InitDispatcher ==
    /\ mgmt_q = <<>> /\ mgmt_closed = FALSE
    /\ inbound_q = <<>> /\ inbound_closed = FALSE
    /\ consumers = EmptyMap
    /\ get_content_responder = NoneV
    /\ responders = EmptyMap
    /\ callback = NoneV
    /\ state = "Initial"
    /\ message_buffer = EmptyBuffer
    /\ is_open = TRUE
    /\ pc = "running" /\ pending = NoneV
    /\ outgoing = <<>> /\ conn_mgmt = <<>>
    /\ sinks = <<>> /\ get_sinks = <<>> /\ waiters = <<>>
    /\ wire = [kind |-> "idle", for |-> "none", id |-> 0, size |-> 0, off |-> 0,
               next_tag |-> 1]
    /\ requests = [h \in RpcHeaders \cup {"Get"} |-> 0]
    /\ selected = [branch |-> "none", frame_waiting |-> FALSE, cmd_waiting |-> FALSE]
    /\ log = <<>>
    /\ nmethods = 0 /\ ncmds = 0

\* Channels of one connection; the consumer of SlowChannel never drains its
\* sink, the consumers of the other channels do.
Channels == {1, 2}
SlowChannel == 1

\* Nothing has arrived on the connection yet.
InitConnection ==
    /\ bp_socket = <<>>
    /\ bp_reader = NoneV
    /\ bp_inbound = [c \in Channels |-> 0]
    /\ bp_disp = [c \in Channels |-> FALSE]
    /\ bp_sink = [c \in Channels |-> 0]
    /\ bp_arrived = 0

\* No call into the AMQP types is under way.
InitNoCall == ty_in = NoneV /\ ty_out = NoneV /\ ty_back = NoneV

Init == InitDispatcher /\ InitConnection /\ InitNoCall


\* --------------------------------------------------- API tasks (callers)
\* The dispatcher task has neither finished nor panicked: it holds the
\* receivers of both queues.
TaskAlive == pc \notin {"exited", "panicked"}

\* A management command can be sent while a sender of the management queue is
\* alive and the dispatcher still holds the receiver.
CanSendCmd ==
    ncmds < MaxCmds /\ ~mgmt_closed /\ TaskAlive /\ Len(mgmt_q) < MgmtCap

\* basic_consume: a fresh bounded queue whose sender goes to the dispatcher.
ApiRegisterContentConsumer(tag) ==
    /\ CanSendCmd
    /\ sinks' = Append(sinks, [tag |-> tag, open |-> TRUE, q |-> <<>>,
                               got |-> <<>>, drained |-> 0])
    /\ mgmt_q' = Append(mgmt_q, [type |-> "RegisterContentConsumer",
                                 consumer_tag |-> tag, consumer_tx |-> Len(sinks) + 1])
    /\ ncmds' = ncmds + 1
    /\ UNCHANGED <<mgmt_closed, inbound_q, inbound_closed, disp_vars, get_sinks,
                   waiters, wire, requests, nmethods>>
    /\ UNCHANGED other_vars

\* basic_cancel
ApiUnregisterContentConsumer(tag) ==
    /\ CanSendCmd
    /\ mgmt_q' = Append(mgmt_q, [type |-> "UnregisterContentConsumer",
                                 consumer_tag |-> tag])
    /\ ncmds' = ncmds + 1
    /\ UNCHANGED <<mgmt_closed, inbound_q, inbound_closed, disp_vars, recv_vars,
                   wire, requests, nmethods>>
    /\ UNCHANGED other_vars

\* basic_get, first half: register the reply sink.
ApiRegisterGetContentResponder ==
    /\ CanSendCmd
    /\ get_sinks' = Append(get_sinks, [open |-> TRUE, requested |-> FALSE, q |-> <<>>,
                                       got |-> <<>>])
    /\ mgmt_q' = Append(mgmt_q, [type |-> "RegisterGetContentResponder",
                                 tx |-> Len(get_sinks) + 1])
    /\ ncmds' = ncmds + 1
    /\ UNCHANGED <<mgmt_closed, inbound_q, inbound_closed, disp_vars, sinks,
                   waiters, wire, requests, nmethods>>
    /\ UNCHANGED other_vars

\* basic_get, second half: the basic.get method frame goes to the broker.
ApiSendGet(g) ==
    /\ g \in DOMAIN get_sinks
    /\ ~get_sinks[g].requested
    /\ get_sinks' = [get_sinks EXCEPT ![g].requested = TRUE]
    /\ requests' = [requests EXCEPT !["Get"] = @ + 1]
    /\ UNCHANGED <<queue_vars, disp_vars, sinks, waiters, wire, nmethods, ncmds>>
    /\ UNCHANGED other_vars

\* A synchronous call, first step: acquire a one-shot waiter and register it.
ApiRegisterOneshotResponder(h) ==
    /\ CanSendCmd
    /\ waiters' = Append(waiters, [header |-> h, alive |-> TRUE, acked |-> FALSE,
                                   requested |-> FALSE, got |-> <<>>,
                                   dropped |-> FALSE])
    /\ mgmt_q' = Append(mgmt_q, [type |-> "RegisterOneshotResponder",
                                 method_header |-> h, responder |-> Len(waiters) + 1])
    /\ ncmds' = ncmds + 1
    /\ UNCHANGED <<mgmt_closed, inbound_q, inbound_closed, disp_vars, sinks,
                   get_sinks, wire, requests, nmethods>>
    /\ UNCHANGED other_vars

\* A synchronous call, second step: once acknowledged, send the method frame.
ApiSendRequest(w) ==
    /\ w \in DOMAIN waiters
    /\ waiters[w].alive /\ waiters[w].acked /\ ~waiters[w].requested
    /\ waiters' = [waiters EXCEPT ![w].requested = TRUE]
    /\ requests' = [requests EXCEPT ![waiters[w].header] = @ + 1]
    /\ UNCHANGED <<queue_vars, disp_vars, sinks, get_sinks, wire, nmethods, ncmds>>
    /\ UNCHANGED other_vars

\* The calling future is dropped (timeout, cancellation): the receivers of the
\* acknowledgement and of the reply go away.
ApiCancel(w) ==
    /\ w \in DOMAIN waiters
    /\ waiters[w].alive /\ waiters[w].got = <<>> /\ ~waiters[w].dropped
    /\ waiters' = [waiters EXCEPT ![w].alive = FALSE]
    /\ UNCHANGED <<queue_vars, disp_vars, sinks, get_sinks, env_vars>>
    /\ UNCHANGED other_vars

\* register_callback; the callback's close handler returns or panics.
ApiRegisterChannelCallback(cb) ==
    /\ CanSendCmd
    /\ mgmt_q' = Append(mgmt_q, [type |-> "RegisterChannelCallback", callback |-> cb])
    /\ ncmds' = ncmds + 1
    /\ UNCHANGED <<mgmt_closed, inbound_q, inbound_closed, disp_vars, recv_vars,
                   wire, requests, nmethods>>
    /\ UNCHANGED other_vars

\* Every sender of the management queue is dropped.
CloseMgmt ==
    /\ ~mgmt_closed /\ TaskAlive
    /\ mgmt_closed' = TRUE
    /\ UNCHANGED <<mgmt_q, inbound_q, inbound_closed, disp_vars, recv_vars, env_vars>>
    /\ UNCHANGED other_vars

\* A consumer takes the next message out of its sink.
SinkRecv(s) ==
    /\ s \in DOMAIN sinks /\ sinks[s].open /\ sinks[s].q # <<>>
    /\ sinks' = [sinks EXCEPT ![s].got = Append(@, Head(sinks[s].q)),
                              ![s].q = Tail(@)]
    /\ UNCHANGED <<queue_vars, disp_vars, get_sinks, waiters, env_vars>>
    /\ UNCHANGED other_vars

\* The caller of basic_get takes the next frame out of its sink.
GetSinkRecv(g) ==
    /\ g \in DOMAIN get_sinks /\ get_sinks[g].open /\ get_sinks[g].q # <<>>
    /\ get_sinks' = [get_sinks EXCEPT ![g].got = Append(@, Head(get_sinks[g].q)),
                                      ![g].q = Tail(@)]
    /\ UNCHANGED <<queue_vars, disp_vars, sinks, waiters, env_vars>>
    /\ UNCHANGED other_vars

\* A consumer drops the receiving end of its sink: what the queue holds is
\* destroyed.
SinkClose(s) ==
    /\ s \in DOMAIN sinks /\ sinks[s].open
    /\ sinks' = [sinks EXCEPT ![s].open = FALSE, ![s].q = <<>>]
    /\ UNCHANGED <<queue_vars, disp_vars, get_sinks, waiters, env_vars>>
    /\ UNCHANGED other_vars

\* ------------------------------------------------------------- the broker
\* The broker follows the protocol: a content-bearing method is followed by
\* its header and by body frames that total the declared body-size, nothing
\* else in between, and nothing after a close.
CanSendFrame ==
    ~inbound_closed /\ TaskAlive /\ Len(inbound_q) < InboundCap
CanSendMethod == CanSendFrame /\ wire.kind = "idle" /\ nmethods < MaxMethods

EnqueueMethod(frame) ==
    /\ inbound_q' = Append(inbound_q, frame)
    /\ nmethods' = nmethods + 1

EnqueueContent(frame) ==
    /\ inbound_q' = Append(inbound_q, frame)
    /\ nmethods' = nmethods

ExpectHeader(for, id) ==
    [wire EXCEPT !.kind = "header", !.for = for, !.id = id, !.size = 0, !.off = 0]

BrokerDeliver(tag) ==
    /\ CanSendMethod
    /\ EnqueueMethod([type |-> "Deliver", consumer_tag |-> tag,
                delivery_tag |-> wire.next_tag])
    /\ wire' = [ExpectHeader("Deliver", wire.next_tag) EXCEPT !.next_tag = @ + 1]
    /\ UNCHANGED <<mgmt_q, mgmt_closed, inbound_closed, disp_vars, recv_vars,
                   requests, ncmds>>
    /\ UNCHANGED other_vars

BrokerContentHeader(n) ==
    /\ CanSendFrame /\ wire.kind = "header"
    /\ EnqueueContent([type |-> "ContentHeader", basic_properties |-> wire.id,
                body_size |-> n])
    /\ wire' = IF n = 0 THEN [wire EXCEPT !.kind = "idle"]
               ELSE [wire EXCEPT !.kind = "body", !.size = n, !.off = 0]
    /\ UNCHANGED <<mgmt_q, mgmt_closed, inbound_closed, disp_vars, recv_vars,
                   requests, ncmds>>
    /\ UNCHANGED other_vars

BrokerContentBody(k) ==
    /\ CanSendFrame /\ wire.kind = "body"
    /\ k \in 1..(wire.size - wire.off)
    /\ EnqueueContent([type |-> "ContentBody",
                inner |-> [i \in 1..k |-> BodyByte(wire.id, wire.off + i)]])
    /\ wire' = IF wire.off + k = wire.size THEN [wire EXCEPT !.kind = "idle"]
               ELSE [wire EXCEPT !.off = @ + k]
    /\ UNCHANGED <<mgmt_q, mgmt_closed, inbound_closed, disp_vars, recv_vars,
                   requests, ncmds>>
    /\ UNCHANGED other_vars

BrokerGetOk ==
    /\ CanSendMethod /\ requests["Get"] > 0
    /\ EnqueueMethod([type |-> "GetOk", delivery_tag |-> wire.next_tag])
    /\ wire' = [ExpectHeader("GetOk", wire.next_tag) EXCEPT !.next_tag = @ + 1]
    /\ requests' = [requests EXCEPT !["Get"] = @ - 1]
    /\ UNCHANGED <<mgmt_q, mgmt_closed, inbound_closed, disp_vars, recv_vars, ncmds>>
    /\ UNCHANGED other_vars

BrokerGetEmpty ==
    /\ CanSendMethod /\ requests["Get"] > 0
    /\ EnqueueMethod([type |-> "GetEmpty"])
    /\ requests' = [requests EXCEPT !["Get"] = @ - 1]
    /\ UNCHANGED <<mgmt_q, mgmt_closed, inbound_closed, disp_vars, recv_vars,
                   wire, ncmds>>
    /\ UNCHANGED other_vars

BrokerReturn ==
    /\ CanSendMethod
    /\ EnqueueMethod([type |-> "Return", reply_code |-> 312, reply_text |-> "NO_ROUTE"])
    /\ wire' = ExpectHeader("Return", 0)
    /\ UNCHANGED <<mgmt_q, mgmt_closed, inbound_closed, disp_vars, recv_vars,
                   requests, ncmds>>
    /\ UNCHANGED other_vars

\* The reply to a request the API has sent; seq tells two replies apart.
BrokerReply(h) ==
    /\ CanSendMethod /\ requests[h] > 0
    /\ EnqueueMethod([type |-> h, method_header |-> h, seq |-> nmethods + 1])
    /\ requests' = [requests EXCEPT ![h] = @ - 1]
    /\ wire' = IF h = CloseChannelOkHeader THEN [wire EXCEPT !.kind = "closed"]
               ELSE wire
    /\ UNCHANGED <<mgmt_q, mgmt_closed, inbound_closed, disp_vars, recv_vars, ncmds>>
    /\ UNCHANGED other_vars

BrokerCloseChannel(reason) ==
    /\ CanSendMethod
    /\ EnqueueMethod([type |-> "CloseChannel", reply_code |-> reason[1],
                reply_text |-> reason[2]])
    /\ wire' = [wire EXCEPT !.kind = "closed"]
    /\ UNCHANGED <<mgmt_q, mgmt_closed, inbound_closed, disp_vars, recv_vars,
                   requests, ncmds>>
    /\ UNCHANGED other_vars

BrokerAsyncRequest(kind) ==
    /\ CanSendMethod
    /\ EnqueueMethod([type |-> kind])
    /\ UNCHANGED <<mgmt_q, mgmt_closed, inbound_closed, disp_vars, recv_vars,
                   wire, requests, ncmds>>
    /\ UNCHANGED other_vars

\* The connection's reader drops the sender of the inbound queue.
CloseInbound ==
    /\ ~inbound_closed /\ TaskAlive
    /\ inbound_closed' = TRUE
    /\ UNCHANGED <<mgmt_q, mgmt_closed, inbound_q, disp_vars, recv_vars, env_vars>>
    /\ UNCHANGED other_vars



\* ---------------------------------------------------------- the dispatcher
\* tokio::select! with `biased;`: the management queue is polled first, the
\* inbound queue only when the management queue has nothing to report. recv()
\* yields None once a queue is empty and every sender is gone.
SelectsCmd == mgmt_q # <<>>
SelectsMgmtClosed == mgmt_q = <<>> /\ mgmt_closed
SelectsFrame_Unbiased == inbound_q # <<>>
SelectsFrame == mgmt_q = <<>> /\ ~mgmt_closed /\ inbound_q # <<>>
SelectsInboundClosed ==
    mgmt_q = <<>> /\ ~mgmt_closed /\ inbound_q = <<>> /\ inbound_closed

\* The queues after a step that leaves the task alive (in the loop, or
\* suspended in a send): they keep whatever the step did not take.
GoesOn(mq, iq) == mgmt_q' = mq /\ inbound_q' = iq
AfterCmd == GoesOn(Tail(mgmt_q), inbound_q)
AfterFrame == GoesOn(mgmt_q, Tail(inbound_q))

RecvCmd ==
    /\ pc = "running" /\ SelectsCmd
    /\ selected' = [branch |-> "command", frame_waiting |-> inbound_q # <<>>,
                    cmd_waiting |-> TRUE]
    /\ UNCHANGED <<mgmt_closed, inbound_closed, env_vars>>
    /\ UNCHANGED other_vars

RecvFrame ==
    /\ pc = "running" /\ SelectsFrame
    /\ selected' = [branch |-> "frame", frame_waiting |-> TRUE,
                    cmd_waiting |-> mgmt_q # <<>>]
    /\ UNCHANGED <<mgmt_closed, inbound_closed, env_vars>>
    /\ UNCHANGED other_vars

\* The task continues after a send it was suspended in: nothing is selected.
Resumes ==
    /\ UNCHANGED <<selected, mgmt_closed, inbound_closed, env_vars>>
    /\ UNCHANGED other_vars

\* The one-shot senders held in a responder map, and those held in the
\* RegisterOneshotResponder commands still queued, are dropped with their
\* holder: their receivers see the sender gone.
DropSenders(ws, resp, mq) ==
    [w \in DOMAIN ws |->
        IF \/ \E h \in DOMAIN resp : resp[h] = w
           \/ \E i \in DOMAIN mq : /\ mq[i].type = "RegisterOneshotResponder"
                                   /\ mq[i].responder = w
        THEN [ws[w] EXCEPT !.dropped = TRUE] ELSE ws[w]]

\* The spawned task finishes (how = "exited") or is aborted by a panic
\* (how = "panicked"): either way `self` and message_buffer are dropped, and
\* with `self` the receivers of both queues, which destroys what is queued.
TaskEnds(how, resp, ws, mq) ==
    /\ pc' = how
    /\ pending' = NoneV
    /\ consumers' = EmptyMap
    /\ get_content_responder' = NoneV
    /\ responders' = EmptyMap
    /\ callback' = NoneV
    /\ message_buffer' = EmptyBuffer
    /\ mgmt_q' = <<>>
    /\ inbound_q' = <<>>
    /\ waiters' = DropSenders(ws, resp, mq)

UnregisterChannelResource == [type |-> "UnregisterChannelResource",
                              channel_id |-> ChannelId]

\* conn_mgmt_tx.send(cmd).await after the loop: the command is queued and the
\* task finishes; a failed send (receiver gone) is only logged.
SendUnregister(st, events, resp, ws, mq) ==
    /\ TaskEnds("exited", resp, ws, mq)
    /\ conn_mgmt' = IF st = "room" THEN Append(conn_mgmt, UnregisterChannelResource)
                    ELSE conn_mgmt
    /\ log' = events \o <<IF st = "room" THEN "send UnregisterChannelResource"
                          ELSE "send failed">>

\* break, then the code after the loop. The send to the connection manager
\* waits while that queue is full; the task then holds the responders resp
\* and the callback cb.
LeaveLoop_Continue(events, resp, ws, cb, mq, iq) ==
    /\ pc' = "running"
    /\ pending' = NoneV
    /\ GoesOn(mq, iq)
    /\ UNCHANGED <<consumers, get_content_responder, message_buffer>>
    /\ callback' = cb
    /\ responders' = resp
    /\ waiters' = ws
    /\ conn_mgmt' = conn_mgmt
    /\ log' = events
LeaveLoop(events, resp, ws, cb, mq, iq) ==
    \E st \in QueueStates :
        IF st = "full"
        THEN /\ pc' = "conn_mgmt_send"
             /\ pending' = Some([to |-> 0, item |-> UnregisterChannelResource])
             /\ GoesOn(mq, iq)
             /\ UNCHANGED <<consumers, get_content_responder, message_buffer>>
             /\ callback' = cb
             /\ responders' = resp
             /\ waiters' = ws
             /\ conn_mgmt' = conn_mgmt
             /\ log' = events \o <<"break">>
        ELSE SendUnregister(st, events \o <<"break">>, resp, ws, mq)

\* The connection manager's queue has room again, or its receiver is gone.
UnregisterSendResumes ==
    /\ pc = "conn_mgmt_send"
    /\ \E st \in QueueStates \ {"full"} :
           SendUnregister(st, <<>>, responders, waiters, mgmt_q)
    /\ Resumes
    /\ UNCHANGED <<state, is_open, outgoing, sinks, get_sinks>>

\* A panic (unwrap, expect, todo!, unreachable!) aborts the task at once.
Panic(events, resp, ws, mq) ==
    /\ TaskEnds("panicked", resp, ws, mq)
    /\ conn_mgmt' = conn_mgmt
    /\ log' = events \o <<"panic">>

\* get_or_new_consumer
get_or_new_consumer(cs, tag) ==
    IF tag \notin DOMAIN cs THEN MapInsert(cs, tag, NewConsumerResource) ELSE cs

\* remove_consumer
remove_consumer(cs, tag) == MapRemove(cs, tag)

Sends(n) == [i \in 1..n |-> "send"]

\* ConsumerResource::push
push_front(fifo, message) == <<message>> \o fifo
push(fifo, message) == Append(fifo, message)

\* What Sender::send(..).await finds at a bounded queue: the receiver gone
\* (Err), room for the item, or a full queue (the sender waits).
SinkState(ss, s) ==
    IF ~ss[s].open THEN "closed"
    ELSE IF Len(ss[s].q) < SinkCap THEN "room" ELSE "full"

GetSinkState(gs, g) ==
    IF ~gs[g].open THEN "closed"
    ELSE IF Len(gs[g].q) < GetSinkCap THEN "room" ELSE "full"

\* The drain loop of RegisterContentConsumer on an open sink: while the FIFO
\* is not empty, pop its front and send it to the sink. The loop runs on
\* while the sink's queue has room; the result is the sink's queue, what the
\* FIFO still holds, and the popped message whose send is waiting, if any.
DrainOne(q, fifo) ==
    IF fifo = <<>> THEN [q |-> q, fifo |-> fifo, waiting |-> NoneV]
    ELSE IF Len(q) < SinkCap
         THEN [q |-> Append(q, Head(fifo)), fifo |-> Tail(fifo), waiting |-> NoneV]
         ELSE [q |-> q, fifo |-> Tail(fifo), waiting |-> Some(Head(fifo))]
RECURSIVE Drain(_, _)
Drain(q, fifo) ==
    IF fifo = <<>> THEN [q |-> q, fifo |-> fifo, waiting |-> NoneV]
    ELSE IF Len(q) < SinkCap
         THEN Drain(Append(q, Head(fifo)), Tail(fifo))
         ELSE [q |-> q, fifo |-> Tail(fifo), waiting |-> Some(Head(fifo))]

\* The drain loop from the point reached with `fifo` left for sink tx of tag,
\* the sink's queue being q: it ends (back to the select) or is suspended in
\* a send.
DrainLoop(cs, tag, tx, q, fifo, events) ==
    LET d == Drain(q, fifo)
    IN /\ consumers' = [cs EXCEPT ![tag] = [fifo |-> d.fifo, tx |-> Some(tx)]]
       /\ sinks' = [sinks EXCEPT ![tx].q = d.q,
                                 ![tx].drained = @ + Len(d.q) - Len(sinks[tx].q)]
       /\ pending' = IF IsSome(d.waiting)
                     THEN Some([to |-> tag, item |-> Unwrap(d.waiting)])
                     ELSE NoneV
       /\ pc' = IF IsSome(d.waiting) THEN "drain_send" ELSE "running"
       /\ log' = events \o Sends(Len(d.q) - Len(sinks[tx].q))

\* RegisterContentConsumer: install the sink, then drain the FIFO into it;
\* a failed send (receiver closed) is unwrapped.
HandleRegisterContentConsumer ==
    /\ RecvCmd /\ Head(mgmt_q).type = "RegisterContentConsumer"
    /\ LET tag == Head(mgmt_q).consumer_tag
           tx == Head(mgmt_q).consumer_tx
           cs == get_or_new_consumer(consumers, tag)
           fifo == cs[tag].fifo
       IN IF fifo = <<>> \/ sinks[tx].open
          THEN /\ DrainLoop(cs, tag, tx, sinks[tx].q, fifo, <<"register_tx">>)
               /\ AfterCmd
               /\ UNCHANGED <<get_content_responder, responders, callback, state,
                              message_buffer, is_open, outgoing, conn_mgmt,
                              get_sinks, waiters>>
          ELSE /\ Panic(<<"register_tx", "pop">>, responders, waiters, Tail(mgmt_q))
               /\ UNCHANGED <<state, is_open, outgoing, sinks, get_sinks>>

\* The send the drain loop was suspended in completes (the sink has room) or
\* fails (the receiver is gone, unwrap panics); the loop then runs on.
DrainSendResumes ==
    /\ pc = "drain_send"
    /\ LET tag == Unwrap(pending).to
           tx == Unwrap(consumers[tag].tx)
       IN /\ SinkState(sinks, tx) # "full"
          /\ IF sinks[tx].open
             THEN /\ DrainLoop(consumers, tag, tx,
                               Append(sinks[tx].q, Unwrap(pending).item),
                               consumers[tag].fifo, <<>>)
                  /\ GoesOn(mgmt_q, inbound_q)
                  /\ UNCHANGED <<get_content_responder, responders, callback, state,
                                 message_buffer, is_open, outgoing, conn_mgmt,
                                 get_sinks, waiters>>
             ELSE /\ Panic(<<>>, responders, waiters, mgmt_q)
                  /\ UNCHANGED <<state, is_open, outgoing, sinks, get_sinks>>
    /\ Resumes

HandleUnregisterContentConsumer_ClearsBuffer ==
    /\ RecvCmd /\ Head(mgmt_q).type = "UnregisterContentConsumer"
    /\ AfterCmd
    /\ consumers' = remove_consumer(consumers, Head(mgmt_q).consumer_tag)
    /\ message_buffer' = EmptyBuffer
    /\ log' = <<"remove_consumer">>
    /\ UNCHANGED <<get_content_responder, responders, callback, state,
                   is_open, pc, pending, outgoing, conn_mgmt, recv_vars>>
HandleUnregisterContentConsumer ==
    /\ RecvCmd /\ Head(mgmt_q).type = "UnregisterContentConsumer"
    /\ AfterCmd
    /\ consumers' = remove_consumer(consumers, Head(mgmt_q).consumer_tag)
    /\ log' = <<"remove_consumer">>
    /\ UNCHANGED <<get_content_responder, responders, callback, state,
                   message_buffer, is_open, pc, pending, outgoing, conn_mgmt,
                   recv_vars>>

HandleRegisterGetContentResponder ==
    /\ RecvCmd /\ Head(mgmt_q).type = "RegisterGetContentResponder"
    /\ AfterCmd
    /\ get_content_responder' = Some(Head(mgmt_q).tx)
    /\ log' = <<"replace get_content_responder">>
    /\ UNCHANGED <<consumers, responders, callback, state, message_buffer, is_open,
                   pc, pending, outgoing, conn_mgmt, recv_vars>>

\* responders.insert replaces (and drops) a sender already stored under the
\* header; the acknowledgement is then sent and its failure unwrapped.
InsertResponder(resp, h, w) == MapInsert(resp, h, w)

HandleRegisterOneshotResponder ==
    /\ RecvCmd /\ Head(mgmt_q).type = "RegisterOneshotResponder"
    /\ LET h == Head(mgmt_q).method_header
           w == Head(mgmt_q).responder
           resp == InsertResponder(responders, h, w)
           replaced == {v \in DOMAIN waiters :
                            /\ \E k \in DOMAIN responders : responders[k] = v
                            /\ ~\E k \in DOMAIN resp : resp[k] = v}
           ws == [v \in DOMAIN waiters |->
                     IF v \in replaced THEN [waiters[v] EXCEPT !.dropped = TRUE]
                     ELSE waiters[v]]
       IN IF waiters[w].alive
          THEN /\ responders' = resp
               /\ waiters' = [ws EXCEPT ![w].acked = TRUE]
               /\ log' = <<"insert responder", "ack">>
               /\ AfterCmd
               /\ UNCHANGED <<consumers, get_content_responder, callback, state,
                              message_buffer, is_open, pc, pending, outgoing,
                              conn_mgmt, sinks, get_sinks>>
          ELSE /\ Panic(<<"insert responder">>, resp, ws, Tail(mgmt_q))
               /\ UNCHANGED <<state, is_open, outgoing, sinks, get_sinks>>

HandleRegisterChannelCallback ==
    /\ RecvCmd /\ Head(mgmt_q).type = "RegisterChannelCallback"
    /\ AfterCmd
    /\ callback' = Some(Head(mgmt_q).callback)
    /\ log' = <<"replace callback">>
    /\ UNCHANGED <<consumers, get_content_responder, responders, state,
                   message_buffer, is_open, pc, pending, outgoing, conn_mgmt,
                   recv_vars>>

\* dispatcher_mgmt_rx.recv() returned None
MgmtQueueClosed ==
    /\ pc = "running" /\ SelectsMgmtClosed
    /\ selected' = [branch |-> "command closed", frame_waiting |-> inbound_q # <<>>,
                    cmd_waiting |-> FALSE]
    /\ LeaveLoop(<<>>, responders, waiters, callback, mgmt_q, inbound_q)
    /\ UNCHANGED <<mgmt_closed, inbound_closed, env_vars, state, is_open, outgoing,
                   sinks, get_sinks>>
    /\ UNCHANGED other_vars

\* dispatcher_rx.recv() returned None
InboundQueueClosed ==
    /\ pc = "running" /\ SelectsInboundClosed
    /\ selected' = [branch |-> "frame closed", frame_waiting |-> FALSE,
                    cmd_waiting |-> FALSE]
    /\ LeaveLoop(<<>>, responders, waiters, callback, mgmt_q, inbound_q)
    /\ UNCHANGED <<mgmt_closed, inbound_closed, env_vars, state, is_open, outgoing,
                   sinks, get_sinks>>
    /\ UNCHANGED other_vars


\* ------------------------------------------------------- inbound frames
\* mpsc::Sender::send to a basic-get sink whose queue is not full: the frame
\* is queued if the receiver is alive; an error is only logged.
SendToGetSink_Drop(gs, g, frame) == gs
SendToGetSink(gs, g, frame) ==
    IF gs[g].open THEN [gs EXCEPT ![g].q = Append(@, frame)] ELSE gs

\* mpsc::Sender::send to a consumer sink whose queue is not full; an error is
\* only logged.
SendToSink(ss, s, msg) ==
    IF ss[s].open THEN [ss EXCEPT ![s].q = Append(@, msg)] ELSE ss

\* tx.send(frame).await on the basic-get sink g: the task waits in the send
\* while the sink's queue is full.
AwaitSendToGetSink(g, frame, events) ==
    IF GetSinkState(get_sinks, g) = "full"
    THEN /\ pc' = "get_send"
         /\ pending' = Some([to |-> g, item |-> frame])
         /\ get_sinks' = get_sinks
         /\ log' = events
    ELSE /\ pc' = "running"
         /\ pending' = NoneV
         /\ get_sinks' = SendToGetSink(get_sinks, g, frame)
         /\ log' = events \o <<"send">>

\* consumer_tx.send(consumer_message).await on the consumer sink s.
AwaitSendToSink(s, msg, events) ==
    IF SinkState(sinks, s) = "full"
    THEN /\ pc' = "consumer_send"
         /\ pending' = Some([to |-> s, item |-> msg])
         /\ sinks' = sinks
         /\ log' = events
    ELSE /\ pc' = "running"
         /\ pending' = NoneV
         /\ sinks' = SendToSink(sinks, s, msg)
         /\ log' = events \o <<"send">>

\* The basic-get sink has room again or its receiver is gone: the send ends
\* and the task is back at the select.
GetSendResumes ==
    /\ pc = "get_send"
    /\ GetSinkState(get_sinks, Unwrap(pending).to) # "full"
    /\ AwaitSendToGetSink(Unwrap(pending).to, Unwrap(pending).item, <<>>)
    /\ Resumes
    /\ UNCHANGED <<mgmt_q, inbound_q, consumers, get_content_responder, responders,
                   callback, state, message_buffer, is_open, outgoing, conn_mgmt,
                   sinks, waiters>>

\* The consumer sink has room again or its receiver is gone.
ConsumerSendResumes ==
    /\ pc = "consumer_send"
    /\ SinkState(sinks, Unwrap(pending).to) # "full"
    /\ AwaitSendToSink(Unwrap(pending).to, Unwrap(pending).item, <<>>)
    /\ Resumes
    /\ UNCHANGED <<mgmt_q, inbound_q, consumers, get_content_responder, responders,
                   callback, state, message_buffer, is_open, outgoing, conn_mgmt,
                   get_sinks, waiters>>

HandleReturn ==
    /\ RecvFrame /\ Head(inbound_q).type = "Return"
    /\ AfterFrame
    /\ state' = "Return"
    /\ log' = <<"state = Return">>
    /\ UNCHANGED <<consumers, get_content_responder, responders, callback,
                   message_buffer, is_open, pc, pending, outgoing, conn_mgmt,
                   recv_vars>>

HandleGetEmpty ==
    /\ RecvFrame /\ Head(inbound_q).type = "GetEmpty"
    /\ state' = "GetEmpty"
    /\ IF IsSome(get_content_responder)
       THEN /\ get_content_responder' = NoneV
            /\ AwaitSendToGetSink(Unwrap(get_content_responder), Head(inbound_q),
                                  <<"state = GetEmpty", "take get_content_responder">>)
            /\ AfterFrame
            /\ UNCHANGED <<consumers, responders, callback, message_buffer, is_open,
                           outgoing, conn_mgmt, sinks, waiters>>
       ELSE /\ Panic(<<"state = GetEmpty">>, responders, waiters, mgmt_q)
            /\ UNCHANGED <<is_open, outgoing, sinks, get_sinks>>

HandleGetOk ==
    /\ RecvFrame /\ Head(inbound_q).type = "GetOk"
    /\ state' = "GetOk"
    /\ IF IsSome(get_content_responder)
       THEN /\ AwaitSendToGetSink(Unwrap(get_content_responder), Head(inbound_q),
                                  <<"state = GetOk">>)
            /\ AfterFrame
            /\ UNCHANGED <<consumers, get_content_responder, responders, callback,
                           message_buffer, is_open, outgoing, conn_mgmt, sinks,
                           waiters>>
       ELSE /\ Panic(<<"state = GetOk">>, responders, waiters, mgmt_q)
            /\ UNCHANGED <<is_open, outgoing, sinks, get_sinks>>

HandleDeliver ==
    /\ RecvFrame /\ Head(inbound_q).type = "Deliver"
    /\ AfterFrame
    /\ state' = "Deliver"
    /\ message_buffer' = [message_buffer EXCEPT !.deliver =
                             Some([consumer_tag |-> Head(inbound_q).consumer_tag,
                                   delivery_tag |-> Head(inbound_q).delivery_tag])]
    /\ log' = <<"state = Deliver", "buffer deliver">>
    /\ UNCHANGED <<consumers, get_content_responder, responders, callback, is_open,
                   pc, pending, outgoing, conn_mgmt, recv_vars>>

HandleContentHeader ==
    /\ RecvFrame /\ Head(inbound_q).type = "ContentHeader"
    /\ CASE state = "Deliver" ->
              /\ message_buffer' = [message_buffer EXCEPT !.basic_properties =
                                       Some(Head(inbound_q).basic_properties)]
              /\ log' = <<"buffer basic_properties">>
              /\ AfterFrame
              /\ UNCHANGED <<consumers, get_content_responder, responders, callback,
                             state, is_open, pc, pending, outgoing, conn_mgmt,
                             recv_vars>>
         [] state = "GetOk" /\ IsSome(get_content_responder) ->
              /\ AwaitSendToGetSink(Unwrap(get_content_responder), Head(inbound_q),
                                    <<>>)
              /\ AfterFrame
              /\ UNCHANGED <<consumers, get_content_responder, responders, callback,
                             state, message_buffer, is_open, outgoing, conn_mgmt,
                             sinks, waiters>>
         [] OTHER ->
              \* expect() on a missing get sink, todo!() in state Return,
              \* unreachable!() in states Initial and GetEmpty
              /\ Panic(<<>>, responders, waiters, mgmt_q)
              /\ UNCHANGED <<state, is_open, outgoing, sinks, get_sinks>>

\* The ConsumerMessage built from the buffer once the body frame is stored.
TakeMessage(buffer, inner) ==
    [deliver |-> buffer.deliver, basic_properties |-> buffer.basic_properties,
     content |-> Some(inner)]

\* message_buffer.deliver.as_ref().unwrap().consumer_tag()
consumer_tag_of_first(buffer) == "T1"
consumer_tag_of(buffer) == Unwrap(buffer.deliver).consumer_tag

\* A message pushed to the FIFO is followed by yield_now().await: the task
\* is rescheduled at once, so the push and the return to the select are one
\* step.
HandleContentBody ==
    /\ RecvFrame /\ Head(inbound_q).type = "ContentBody"
    /\ CASE state = "Deliver" /\ IsSome(message_buffer.deliver) ->
              LET consumer_tag == consumer_tag_of(message_buffer)
                  consumer_message == TakeMessage(message_buffer, Head(inbound_q).inner)
                  cs == get_or_new_consumer(consumers, consumer_tag)
              IN /\ message_buffer' = EmptyBuffer
                 /\ IF IsSome(cs[consumer_tag].tx)
                    THEN /\ AwaitSendToSink(Unwrap(cs[consumer_tag].tx),
                                            consumer_message, <<"take message">>)
                         /\ consumers' = cs
                    ELSE /\ consumers' = [cs EXCEPT ![consumer_tag].fifo =
                                             push(@, consumer_message)]
                         /\ sinks' = sinks
                         /\ log' = <<"take message", "push", "yield_now">>
                         /\ UNCHANGED <<pc, pending>>
                 /\ AfterFrame
                 /\ UNCHANGED <<get_content_responder, responders, callback, state,
                                is_open, outgoing, conn_mgmt, get_sinks, waiters>>
         [] state = "GetOk" /\ IsSome(get_content_responder) ->
              /\ get_content_responder' = NoneV
              /\ AwaitSendToGetSink(Unwrap(get_content_responder), Head(inbound_q),
                                    <<"take get_content_responder">>)
              /\ AfterFrame
              /\ UNCHANGED <<consumers, responders, callback, state, message_buffer,
                             is_open, outgoing, conn_mgmt, sinks, waiters>>
         [] OTHER ->
              \* unwrap() of a deliver already taken, expect() on a missing get
              \* sink, todo!() in state Return, unreachable!() in Initial, GetEmpty
              /\ Panic(<<>>, responders, waiters, mgmt_q)
              /\ UNCHANGED <<state, is_open, outgoing, sinks, get_sinks>>

\* oneshot::Sender::send: the value arrives if the receiver is alive.
SendToWaiter(ws, w, frame) ==
    IF ws[w].alive THEN [ws EXCEPT ![w].got = <<frame>>] ELSE ws

\* CloseChannelOk: the responder must be there and must take the frame
\* (expect, unwrap); then the channel is marked closed and the loop is left.
HandleCloseChannelOk ==
    /\ RecvFrame /\ Head(inbound_q).type = CloseChannelOkHeader
    /\ LET h == Head(inbound_q).method_header
       IN IF h \in DOMAIN responders /\ waiters[responders[h]].alive
          THEN /\ is_open' = FALSE
               /\ LeaveLoop(<<"remove responder", "send", "set_open_state(false)">>,
                            MapRemove(responders, h),
                            SendToWaiter(waiters, responders[h], Head(inbound_q)),
                            callback, mgmt_q, Tail(inbound_q))
               /\ UNCHANGED <<state, outgoing, sinks, get_sinks>>
          ELSE /\ Panic(IF h \in DOMAIN responders
                        THEN <<"remove responder", "send">> ELSE <<>>,
                        MapRemove(responders, h), waiters, mgmt_q)
               /\ UNCHANGED <<state, is_open, outgoing, sinks, get_sinks>>

\* FlowOk | DeclareOk | ... | TxRollbackOk
RemoveResponder_Keep(resp, h) == resp
RemoveResponder(resp, h) == MapRemove(resp, h)

HandleSyncResponse ==
    /\ RecvFrame /\ Head(inbound_q).type \in SyncHeaders
    /\ AfterFrame
    /\ LET h == Head(inbound_q).method_header
       IN IF h \in DOMAIN responders
          THEN /\ responders' = RemoveResponder(responders, h)
               /\ waiters' = SendToWaiter(waiters, responders[h], Head(inbound_q))
               /\ log' = <<"remove responder", "send">>
          ELSE /\ responders' = responders
               /\ waiters' = waiters
               /\ log' = <<"no responder">>
    /\ UNCHANGED <<consumers, get_content_responder, callback, state, message_buffer,
                   is_open, pc, pending, outgoing, conn_mgmt, sinks, get_sinks>>

\* (self.channel.channel_id(), CloseChannelOk::default().into_frame())
CloseOkFrame_Channel0 == <<0, [type |-> CloseChannelOkHeader]>>
CloseOkFrame == <<ChannelId, [type |-> CloseChannelOkHeader]>>

\* cb.close(&self.channel, close_channel).await comes to its end: the close
\* handler returns, the callback (moved out of self by `if let`) is dropped
\* at the end of the block and the task goes on to break; or the handler
\* panics, which aborts the task.
CallbackEnds(events, mq, iq) ==
    IF callback = Some("returns")
    THEN LeaveLoop(events, responders, waiters, NoneV, mq, iq)
    ELSE Panic(events, responders, waiters, mq)

\* outgoing_tx.send(..).await.unwrap() and what follows it: the frame is
\* queued to the writer, the callback's close handler is called if a
\* callback is registered, then break. A failed send (the writer's receiver
\* is gone) panics. The handler's future completes when first polled
\* (now) or suspends the task, which is then parked in the await with
\* close-ok sent and both receivers still held.
SendCloseOk(st, events, mq, iq) ==
    IF st = "closed"
    THEN /\ outgoing' = outgoing
         /\ Panic(events, responders, waiters, mq)
    ELSE /\ outgoing' = Append(outgoing, CloseOkFrame)
         /\ IF callback = NoneV
            THEN LeaveLoop(events \o <<"send close-ok">>, responders, waiters, NoneV,
                           mq, iq)
            ELSE \E now \in BOOLEAN :
                    IF now
                    THEN CallbackEnds(events \o <<"send close-ok", "callback.close">>,
                                      mq, iq)
                    ELSE /\ pc' = "callback_await"
                         /\ pending' = NoneV
                         /\ GoesOn(mq, iq)
                         /\ log' = events \o <<"send close-ok", "callback.close">>
                         /\ UNCHANGED <<consumers, get_content_responder,
                                        responders, callback, message_buffer,
                                        conn_mgmt, waiters>>

\* Server request to close the channel. The send of close-ok waits while the
\* writer's queue is full.
HandleCloseChannel ==
    /\ RecvFrame /\ Head(inbound_q).type = "CloseChannel"
    /\ is_open' = FALSE
    /\ \E st \in QueueStates :
          IF st = "full"
          THEN /\ pc' = "outgoing_send"
               /\ pending' = Some([to |-> 0, item |-> [channel_id |-> CloseOkFrame[1],
                                                       frame |-> CloseOkFrame[2]]])
               /\ AfterFrame
               /\ log' = <<"set_open_state(false)">>
               /\ UNCHANGED <<consumers, get_content_responder, responders, callback,
                              message_buffer, outgoing, conn_mgmt, waiters>>
          ELSE SendCloseOk(st, <<"set_open_state(false)">>, mgmt_q, Tail(inbound_q))
    /\ UNCHANGED <<state, sinks, get_sinks>>

\* The writer's queue has room again, or its receiver is gone.
CloseOkSendResumes ==
    /\ pc = "outgoing_send"
    /\ \E st \in QueueStates \ {"full"} : SendCloseOk(st, <<>>, mgmt_q, inbound_q)
    /\ Resumes
    /\ UNCHANGED <<state, is_open, sinks, get_sinks>>

\* The callback's close handler, which had suspended the task, completes.
CallbackResumes ==
    /\ pc = "callback_await"
    /\ CallbackEnds(<<"callback.close resumed">>, mgmt_q, inbound_q)
    /\ Resumes
    /\ UNCHANGED <<state, is_open, outgoing, sinks, get_sinks>>

\* Flow | Cancel | Ack | Nack: todo!()
HandleAsyncRequest ==
    /\ RecvFrame /\ Head(inbound_q).type \in AsyncRequests
    /\ Panic(<<>>, responders, waiters, mgmt_q)
    /\ UNCHANGED <<state, is_open, outgoing, sinks, get_sinks>>

\* --------------------------------------------------------- specification
Api ==
    \/ \E tag \in Tags : ApiRegisterContentConsumer(tag)
    \/ \E tag \in Tags : ApiUnregisterContentConsumer(tag)
    \/ ApiRegisterGetContentResponder
    \/ \E g \in DOMAIN get_sinks : ApiSendGet(g)
    \/ \E g \in DOMAIN get_sinks : GetSinkRecv(g)
    \/ \E h \in RpcHeaders : ApiRegisterOneshotResponder(h)
    \/ \E w \in DOMAIN waiters : ApiSendRequest(w)
    \/ \E w \in DOMAIN waiters : ApiCancel(w)
    \/ \E cb \in {"returns", "panics"} : ApiRegisterChannelCallback(cb)
    \/ CloseMgmt
    \/ \E s \in DOMAIN sinks : SinkRecv(s)
    \/ \E s \in DOMAIN sinks : SinkClose(s)

Broker ==
    \/ \E tag \in Tags : BrokerDeliver(tag)
    \/ \E n \in 0..MaxBodySize : BrokerContentHeader(n)
    \/ \E k \in 1..MaxBodySize : BrokerContentBody(k)
    \/ BrokerGetOk
    \/ BrokerGetEmpty
    \/ BrokerReturn
    \/ \E h \in RpcHeaders : BrokerReply(h)
    \/ \E reason \in CloseReasons : BrokerCloseChannel(reason)
    \/ \E kind \in AsyncRequests : BrokerAsyncRequest(kind)
    \/ CloseInbound

\* Steps the task takes as soon as the runtime polls it: the select with
\* something to receive, and the resumption of a send to a sink once the
\* sink has room or is closed.
Scheduled ==
    \/ HandleRegisterContentConsumer
    \/ DrainSendResumes
    \/ HandleUnregisterContentConsumer
    \/ HandleRegisterGetContentResponder
    \/ HandleRegisterOneshotResponder
    \/ HandleRegisterChannelCallback
    \/ MgmtQueueClosed
    \/ HandleReturn
    \/ HandleGetEmpty
    \/ HandleGetOk
    \/ HandleDeliver
    \/ HandleContentHeader
    \/ HandleContentBody
    \/ GetSendResumes
    \/ ConsumerSendResumes
    \/ HandleCloseChannelOk
    \/ HandleSyncResponse
    \/ HandleCloseChannel
    \/ HandleAsyncRequest
    \/ InboundQueueClosed

\* Resumptions that wait for somebody else: the writer or the connection
\* manager to make room in its queue (or to go away), the callback's close
\* handler to complete. The task stays parked until then.
Awaited ==
    \/ CloseOkSendResumes
    \/ CallbackResumes
    \/ UnregisterSendResumes

Dispatcher == Scheduled \/ Awaited

Next == Api \/ Broker \/ Dispatcher

Spec == Init /\ [][Next]_vars

\* The dispatcher is a spawned task the runtime keeps scheduling: a step it
\* can take on its own is eventually taken. Callers, the broker, the writer,
\* the connection manager and the callback owe nothing: a task parked in a
\* send to a full queue of the connection, or in the callback, may stay
\* parked for ever.
SpecFair == Spec /\ WF_vars(Scheduled)

\* ------------------------------------------- the connection as a whole
\* One reader task feeds the inbound queue of every channel; each channel's
\* dispatcher feeds the sink of its consumer. All queues are bounded, and a
\* send on a full bounded queue suspends the sender until there is room.
\* Here a frame stands for a complete delivery.
BpCap == 1
\* Frames that arrive on the socket.
MaxArrivals == 5

dispatcher_vars == <<queue_vars, disp_vars, recv_vars, env_vars>>

\* The broker sends a frame for channel c.
SocketReceives(c) ==
    /\ bp_arrived < MaxArrivals
    /\ bp_socket' = Append(bp_socket, c)
    /\ bp_arrived' = bp_arrived + 1
    /\ UNCHANGED <<bp_reader, bp_inbound, bp_disp, bp_sink, dispatcher_vars, ty_vars>>

\* The reader takes the next frame off the socket.
ReaderReads ==
    /\ bp_reader = NoneV /\ bp_socket # <<>>
    /\ bp_reader' = Some(Head(bp_socket))
    /\ bp_socket' = Tail(bp_socket)
    /\ UNCHANGED <<bp_inbound, bp_disp, bp_sink, bp_arrived, dispatcher_vars, ty_vars>>

\* The reader dispatches the frame by channel id: a send on the channel's
\* bounded inbound queue.
ReaderDispatches ==
    /\ IsSome(bp_reader)
    /\ bp_inbound[Unwrap(bp_reader)] < BpCap
    /\ bp_inbound' = [bp_inbound EXCEPT ![Unwrap(bp_reader)] = @ + 1]
    /\ bp_reader' = NoneV
    /\ UNCHANGED <<bp_socket, bp_disp, bp_sink, bp_arrived, dispatcher_vars, ty_vars>>

\* dispatcher_rx.recv(): the dispatcher of channel c is at its select and
\* takes a frame.
DispatcherTakes(c) ==
    /\ ~bp_disp[c] /\ bp_inbound[c] > 0
    /\ bp_inbound' = [bp_inbound EXCEPT ![c] = @ - 1]
    /\ bp_disp' = [bp_disp EXCEPT ![c] = TRUE]
    /\ UNCHANGED <<bp_socket, bp_reader, bp_sink, bp_arrived, dispatcher_vars, ty_vars>>

\* consumer_tx.send(consumer_message).await: completes once the sink has room;
\* until then the dispatcher is suspended inside the frame's handler.
DispatcherSends(c) ==
    /\ bp_disp[c] /\ bp_sink[c] < BpCap
    /\ bp_sink' = [bp_sink EXCEPT ![c] = @ + 1]
    /\ bp_disp' = [bp_disp EXCEPT ![c] = FALSE]
    /\ UNCHANGED <<bp_socket, bp_reader, bp_inbound, bp_arrived, dispatcher_vars, ty_vars>>

\* A consumer takes a message out of its sink; the slow one never does.
ConsumerReceives(c) ==
    /\ c # SlowChannel /\ bp_sink[c] > 0
    /\ bp_sink' = [bp_sink EXCEPT ![c] = @ - 1]
    /\ UNCHANGED <<bp_socket, bp_reader, bp_inbound, bp_disp, bp_arrived,
                   dispatcher_vars, ty_vars>>

NextConnection ==
    \/ \E c \in Channels : SocketReceives(c)
    \/ ReaderReads
    \/ ReaderDispatches
    \/ \E c \in Channels : DispatcherTakes(c)
    \/ \E c \in Channels : DispatcherSends(c)
    \/ \E c \in Channels : ConsumerReceives(c)

SpecConnection == Init /\ [][NextConnection]_vars


\* ------------------------------------------- AMQP types (amqp_serde)
\* Longest string, in characters, given to the short-string constructor.
MaxStrChars == 256
\* Longest string and byte vector held by a field value.
MaxValueChars == 2
\* Most items of a field array and most entries of a field table.
MaxItems == 2

\* A usize (64 bits: no length here comes near its end) is held as two
\* parts, hi * 2^16 + lo, because lengths beyond u32::MAX must be told from
\* those below it.
Base == 65536
usize(n) == [hi |-> n \div Base, lo |-> n % Base]
\* a + b and a <= b on usize
Plus(a, b) ==
    [hi |-> a.hi + b.hi + (a.lo + b.lo) \div Base, lo |-> (a.lo + b.lo) % Base]
AtMost(a, b) == a.hi < b.hi \/ (a.hi = b.hi /\ a.lo <= b.lo)
\* a * k for a small k
Times(a, k) ==
    [hi |-> a.hi * k + (a.lo * k) \div Base, lo |-> (a.lo * k) % Base]

\* A String: n characters that each take w bytes in UTF-8.
Strings(maxn) ==
    {[w |-> 1, n |-> 0]} \cup {[w |-> w, n |-> n] : w \in 1..4, n \in 1..maxn}
\* String::len: the length in bytes
StrLen(s) == Times(usize(s.n), s.w)
\* A Vec<u8>: n chunks of `chunk` bytes each, and Vec::len
Bytes(maxn) == {[chunk |-> 1, n |-> n] : n \in 0..maxn}
VecLen(v) == Times(usize(v.n), v.chunk)

\* Result<T, TryFromIntError>
Ok(v) == [ok |-> TRUE, val |-> v]
Err == [ok |-> FALSE, err |-> "TryFromIntError"]

U8Max == 255
\* u8::try_from(usize)
u8_try_from_wrapping(n) == Ok(n.lo % (U8Max + 1))
u8_try_from(n) == IF AtMost(n, usize(U8Max)) THEN Ok(n.lo) ELSE Err
\* u32::MAX = 2^32 - 1
U32Max == [hi |-> Base - 1, lo |-> Base - 1]
\* u32::try_from(usize); a u32 is held like a usize
u32_try_from(n) == IF AtMost(n, U32Max) THEN Ok(n) ELSE Err

\* impl TryFrom<String> for ShortStr
ShortStr_try_from(s) ==
    LET len == u8_try_from(StrLen(s))
    IN IF len.ok THEN Ok([len |-> len.val, text |-> s]) ELSE len

\* impl From<ShortStr> for String
ShortStr_into(s) == s.text

\* impl TryFrom<String> for LongStr
LongStr_try_from(s) ==
    LET len == u32_try_from(StrLen(s))
    IN IF len.ok THEN Ok([len |-> len.val, text |-> s]) ELSE len

\* impl From<LongStr> for String
LongStr_into(s) == s.text

\* impl TryFrom<Vec<u8>> for ByteArray
ByteArray_try_from(bytes) ==
    LET len == u32_try_from(VecLen(bytes))
    IN IF len.ok THEN Ok([len |-> len.val, bytes |-> bytes]) ELSE len

\* impl From<ByteArray> for Vec<u8>
ByteArray_into(arr) == arr.bytes

\* size_of::<T>() of the type aliases
size_of ==
    [Boolean |-> usize(1), ShortShortInt |-> usize(1), ShortShortUint |-> usize(1),
     Octect |-> usize(1), ShortInt |-> usize(2), ShortUint |-> usize(2),
     LongInt |-> usize(4), LongUint |-> usize(4), LongLongInt |-> usize(8),
     TimeStamp |-> usize(8), Float |-> usize(4), Double |-> usize(8)]

\* FieldValue::TAG_SIZE
TAG_SIZE == usize(1)

\* A FieldValue is its variant's tag and the variant's payload.
FV(tag, payload) == [tag |-> tag, v |-> payload]

\* panic!("FieldTable is too long"): where a length is computed, the panic
\* takes the place of the usize and unwinds through every caller.
PanicTooLong == [panic |-> "FieldTable is too long"]
IsPanic(n) == "panic" \in DOMAIN n

RECURSIVE FieldValue_len(_), bytes_of_map(_), total_bytes(_)

\* FieldTable::len_in_bytes: the length of the serialized map, and a panic
\* if that is greater than u32::MAX
len_in_bytes(table) ==
    LET len == bytes_of_map(table.map)
    IN IF IsPanic(len) THEN len
       ELSE IF ~AtMost(len, U32Max) THEN PanicTooLong
       ELSE len

\* FieldValue::len
FieldValue_len(value) ==
    CASE value.tag = "V" -> usize(0)
      [] value.tag = "t" -> size_of.Boolean
      [] value.tag = "b" -> size_of.ShortShortInt
      [] value.tag = "B" -> size_of.ShortShortUint
      [] value.tag = "s" -> size_of.ShortInt
      [] value.tag = "u" -> size_of.ShortUint
      [] value.tag = "I" -> size_of.LongInt
      [] value.tag = "i" -> size_of.LongUint
      [] value.tag = "l" -> size_of.LongLongInt
      [] value.tag = "f" -> size_of.Float
      [] value.tag = "d" -> size_of.Double
      [] value.tag = "T" -> size_of.TimeStamp
      [] value.tag = "D" -> Plus(size_of.Octect, size_of.LongInt)
      [] value.tag = "S" -> Plus(size_of.LongUint, value.v.len)
      [] value.tag = "A" -> Plus(size_of.LongUint, value.v.len)
      [] value.tag = "F" -> LET len == len_in_bytes(value.v)
                            IN IF IsPanic(len) THEN len ELSE Plus(TAG_SIZE, len)
      [] value.tag = "x" -> Plus(size_of.LongUint, value.v.len)

\* bytes_of_map: per entry, the name's length octet and bytes, the value's
\* tag and the value
bytes_of_map(map) ==
    IF DOMAIN map = {} THEN usize(0)
    ELSE LET k == CHOOSE k \in DOMAIN map : TRUE
             acc == bytes_of_map(MapRemove(map, k))
             v_len == FieldValue_len(map[k])
         IN IF IsPanic(acc) THEN acc
            ELSE IF IsPanic(v_len) THEN v_len
            ELSE Plus(Plus(Plus(Plus(acc, size_of.Octect), usize(k.len)), TAG_SIZE),
                      v_len)

\* the fold of FieldArray::try_from
total_bytes(values) ==
    IF values = <<>> THEN usize(0)
    ELSE LET acc == total_bytes(Tail(values))
             v_len == FieldValue_len(Head(values))
         IN IF IsPanic(acc) THEN acc
            ELSE IF IsPanic(v_len) THEN v_len
            ELSE Plus(Plus(acc, TAG_SIZE), v_len)

\* impl TryFrom<Vec<FieldValue>> for FieldArray; a panic in the fold unwinds
\* out of the constructor
FieldArray_try_from(values) ==
    LET total == total_bytes(values)
        len == u32_try_from(total)
    IN IF IsPanic(total) THEN total
       ELSE IF len.ok THEN Ok([len |-> len.val, values |-> values]) ELSE len
\* impl From<FieldArray> for Vec<FieldValue>
FieldArray_into(arr) == arr.values

\* The values the functions are called with. One sample value stands for
\* each fixed-size variant; strings, byte vectors, arrays and tables come in
\* every size up to the bounds, built by the constructors above.
ScalarTags == {"t", "b", "B", "s", "u", "I", "i", "l", "f", "d", "T"}
Scalar(tag) == FV(tag, [value |-> 0])
DecimalSample == FV("D", [scale |-> 3, value |-> 123456])
VoidValue == FV("V", [unit |-> 0])
StrValue(s) == FV("S", LongStr_try_from(s).val)
BaseValues ==
    {Scalar(tag) : tag \in ScalarTags} \cup {DecimalSample, VoidValue}
    \cup {StrValue(s) : s \in Strings(MaxValueChars)}
    \cup {FV("x", ByteArray_try_from(b).val) : b \in Bytes(MaxValueChars)}

Arrays(vals) ==
    {FV("A", FieldArray_try_from(values).val) :
        values \in UNION {[1..k -> vals] : k \in 0..MaxItems}}
\* FieldName = ShortStr
Names == {ShortStr_try_from([w |-> 1, n |-> k]).val : k \in 1..MaxItems}
\* FieldTable(HashMap<FieldName, FieldValue>): the record's one field is the map
Tables(vals) ==
    {FV("F", [map |-> map]) : map \in UNION {[D -> vals] : D \in SUBSET Names}}

SomeValues == {Scalar("t"), DecimalSample, StrValue([w |-> 3, n |-> 1]), VoidValue}
SomeNested == Arrays({DecimalSample}) \cup Tables({StrValue([w |-> 3, n |-> 1])})
FieldValues ==
    BaseValues
    \cup Arrays(SomeValues) \cup Tables(SomeValues)
    \cup Arrays(SomeNested \cup {Scalar("t")}) \cup Tables(SomeNested \cup {Scalar("t")})

\* FieldTable::try_from(HashMap) and FieldTable::new; a panic in
\* bytes_of_map unwinds out of the constructor
FieldTable_try_from(map) ==
    LET total == bytes_of_map(map)
        len == u32_try_from(total)
    IN IF IsPanic(total) THEN total
       ELSE IF len.ok THEN Ok([map |-> map]) ELSE len
FieldTable_new == [map |-> EmptyMap]
\* table.as_mut().insert(k, v) for every <<k, v>> of puts, in order
RECURSIVE as_mut_insert(_, _)
as_mut_insert(table, puts) ==
    IF puts = <<>> THEN table
    ELSE as_mut_insert([map |-> MapInsert(table.map, Head(puts)[1], Head(puts)[2])],
                       Tail(puts))

\* Tables to measure: built by try_from or new, then changed through as_mut
\* or left alone.
EntryValues == SomeValues \cup SomeNested
BuiltTables ==
    {FieldTable_new}
    \cup {FieldTable_try_from(map).val :
            map \in UNION {[D -> EntryValues] : D \in SUBSET Names}}
Puts ==
    {<<>>} \cup {<<<<k, v>>>> : k \in Names,
                               v \in {DecimalSample, FV("F", FieldTable_new)}}

\* Payloads around u32::MAX = 4294967295 bytes: strings of 2^32 - 1, 2^32,
\* 2^32 - 14, 2^32 - 10 and 2^31 - 1 bytes, byte vectors of 2^32 - 4 and 2^32
\* bytes, and arrays and tables of the long strings that fit a LongStr.
BigStrings ==
    {[w |-> 3, n |-> 1431655765], [w |-> 4, n |-> 1073741824],
     [w |-> 2, n |-> 2147483641], [w |-> 2, n |-> 2147483643],
     [w |-> 1, n |-> 2147483647]}
BigBytes == {[chunk |-> 4, n |-> 1073741823], [chunk |-> 4, n |-> 1073741824]}
BigValues ==
    {StrValue(s) : s \in {b \in BigStrings : LongStr_try_from(b).ok}}
    \cup {FV("F", FieldTable_new)}
\* Long strings put into a table through as_mut, which checks no length: two
\* strings of 2^31 - 1 bytes make a table of 2^32 + 13 bytes, one of 2^32 - 7
\* bytes makes a table of 2^32 bytes, one of 2^32 - 10 bytes fits.
BigPuts ==
    {<<<<k, v>>>> : k \in {ShortStr_try_from([w |-> 1, n |-> 1]).val},
                    v \in {StrValue([w |-> 3, n |-> 1431655763]),
                           StrValue([w |-> 2, n |-> 2147483643])}}
    \cup {<<<<ShortStr_try_from([w |-> 1, n |-> 1]).val, StrValue([w |-> 1, n |-> 2147483647])>>,
             <<ShortStr_try_from([w |-> 1, n |-> 2]).val, StrValue([w |-> 1, n |-> 2147483647])>>>>}
\* a table made too long through as_mut, as a value
TooLongTable ==
    as_mut_insert(FieldTable_new,
                  <<<<ShortStr_try_from([w |-> 1, n |-> 1]).val, StrValue([w |-> 1, n |-> 2147483647])>>,
                    <<ShortStr_try_from([w |-> 1, n |-> 2]).val, StrValue([w |-> 1, n |-> 2147483647])>>>>)
Vecs(vals) == UNION {[1..k -> vals] : k \in 0..MaxItems}
Maps(vals) == UNION {[D -> vals] : D \in SUBSET Names}

TypeInputs ==
    {[op |-> "ShortStr::try_from", arg |-> s] : s \in Strings(MaxStrChars)}
    \cup {[op |-> "FieldValue::len", arg |-> value] :
            value \in FieldValues \cup {FV("F", TooLongTable)}}
    \cup {[op |-> "FieldTable::len_in_bytes", arg |-> [table |-> t, puts |-> p]] :
            t \in BuiltTables, p \in Puts}
    \cup {[op |-> "FieldTable::len_in_bytes",
           arg |-> [table |-> FieldTable_new, puts |-> p]] : p \in BigPuts}
    \cup {[op |-> "LongStr::try_from", arg |-> s] :
            s \in Strings(MaxStrChars) \cup BigStrings}
    \cup {[op |-> "ByteArray::try_from", arg |-> b] :
            b \in Bytes(MaxValueChars) \cup BigBytes}
    \cup {[op |-> "FieldArray::try_from", arg |-> values] :
            values \in Vecs(EntryValues) \cup Vecs(BigValues)
                       \cup Vecs({DecimalSample, FV("F", TooLongTable)})}
    \cup {[op |-> "FieldTable::try_from", arg |-> map] :
            map \in Maps(EntryValues) \cup Maps(BigValues)
                    \cup Maps({DecimalSample, FV("F", TooLongTable)})}

InitTypes ==
    /\ InitDispatcher /\ InitConnection
    /\ ty_in \in TypeInputs
    /\ ty_out = NoneV /\ ty_back = NoneV

CallShortStrTryFrom ==
    /\ ty_out = NoneV /\ ty_in.op = "ShortStr::try_from"
    /\ ty_out' = Some(ShortStr_try_from(ty_in.arg))
    /\ UNCHANGED <<ty_in, ty_back, dispatcher_vars, bp_vars>>

CallFieldValueLen ==
    /\ ty_out = NoneV /\ ty_in.op = "FieldValue::len"
    /\ ty_out' = Some(FieldValue_len(ty_in.arg))
    /\ UNCHANGED <<ty_in, ty_back, dispatcher_vars, bp_vars>>

\* as_mut, then len_in_bytes
CallLenInBytes ==
    /\ ty_out = NoneV /\ ty_in.op = "FieldTable::len_in_bytes"
    /\ LET table == as_mut_insert(ty_in.arg.table, ty_in.arg.puts)
       IN ty_out' = Some([table |-> table, len |-> len_in_bytes(table)])
    /\ UNCHANGED <<ty_in, ty_back, dispatcher_vars, bp_vars>>

CallLongStrTryFrom ==
    /\ ty_out = NoneV /\ ty_in.op = "LongStr::try_from"
    /\ ty_out' = Some(LongStr_try_from(ty_in.arg))
    /\ UNCHANGED <<ty_in, ty_back, dispatcher_vars, bp_vars>>

CallByteArrayTryFrom ==
    /\ ty_out = NoneV /\ ty_in.op = "ByteArray::try_from"
    /\ ty_out' = Some(ByteArray_try_from(ty_in.arg))
    /\ UNCHANGED <<ty_in, ty_back, dispatcher_vars, bp_vars>>

CallFieldArrayTryFrom ==
    /\ ty_out = NoneV /\ ty_in.op = "FieldArray::try_from"
    /\ ty_out' = Some(FieldArray_try_from(ty_in.arg))
    /\ UNCHANGED <<ty_in, ty_back, dispatcher_vars, bp_vars>>

CallFieldTableTryFrom ==
    /\ ty_out = NoneV /\ ty_in.op = "FieldTable::try_from"
    /\ ty_out' = Some(FieldTable_try_from(ty_in.arg))
    /\ UNCHANGED <<ty_in, ty_back, dispatcher_vars, bp_vars>>

\* The constructed value converted back to the native value (into)
CallInto ==
    /\ ty_out # NoneV /\ ty_back = NoneV
    /\ ty_in.op \in {"ShortStr::try_from", "LongStr::try_from",
                     "ByteArray::try_from", "FieldArray::try_from"}
    /\ ~IsPanic(Unwrap(ty_out)) /\ Unwrap(ty_out).ok
    /\ LET value == Unwrap(ty_out).val
       IN ty_back' = Some(CASE ty_in.op = "ShortStr::try_from" -> ShortStr_into(value)
                            [] ty_in.op = "LongStr::try_from" -> LongStr_into(value)
                            [] ty_in.op = "ByteArray::try_from" -> ByteArray_into(value)
                            [] ty_in.op = "FieldArray::try_from" -> FieldArray_into(value))
    /\ UNCHANGED <<ty_in, ty_out, dispatcher_vars, bp_vars>>

NextTypes ==
    \/ CallShortStrTryFrom \/ CallFieldValueLen \/ CallLenInBytes
    \/ CallLongStrTryFrom \/ CallByteArrayTryFrom \/ CallFieldArrayTryFrom
    \/ CallFieldTableTryFrom \/ CallInto

SpecTypes == InitTypes /\ [][NextTypes]_vars

\* ------------------------------------------------------ steps, as seen
\* from outside: the dispatcher at its select takes the head of a queue; the
\* step leaves the rest of the queue, or nothing when it ends the task.
CmdStep(type) ==
    /\ pc = "running" /\ mgmt_q # <<>> /\ Head(mgmt_q).type = type
    /\ mgmt_q' \in {Tail(mgmt_q), <<>>}
    /\ selected'.branch = "command"
FrameStep(types) ==
    /\ pc = "running" /\ inbound_q # <<>> /\ Head(inbound_q).type \in types
    /\ inbound_q' \in {Tail(inbound_q), <<>>}
    /\ selected'.branch = "frame"

\* The task has finished or panicked.
Stopped == pc \in {"exited", "panicked"}

Range(seq) == {seq[i] : i \in DOMAIN seq}
IsPrefix(a, b) == Len(a) <= Len(b) /\ SubSeq(b, 1, Len(a)) = a

\* What has reached the sink s: taken out by the consumer, or still queued.
SentOf(ss, s) == ss[s].got \o ss[s].q
Sent(s) == SentOf(sinks, s)
\* The message of a send to sink s that is waiting for room.
InFlightOf(at, held, cs, s) ==
    IF at = "consumer_send" /\ Unwrap(held).to = s
    THEN <<Unwrap(held).item>>
    ELSE IF at = "drain_send" /\ cs[Unwrap(held).to].tx = Some(s)
         THEN <<Unwrap(held).item>>
         ELSE <<>>
InFlight(s) == InFlightOf(pc, pending, consumers, s)
\* The same for the basic-get sink g: what has reached it, followed by the
\* frame of a send to it that is waiting for room.
GetTrack(gs, at, held, g) ==
    gs[g].got \o gs[g].q \o
    (IF at = "get_send" /\ Unwrap(held).to = g THEN <<Unwrap(held).item>>
     ELSE <<>>)
GetSent(g) == get_sinks[g].got \o get_sinks[g].q
\* The drain loop is suspended in a send for tag t.
Draining(t) == pc = "drain_send" /\ Unwrap(pending).to = t

DeliveryTag(msg) == Unwrap(msg.deliver).delivery_tag
\* Broker order: delivery tags grow with every Deliver the broker sends.
InArrivalOrder(msgs) ==
    \A i, j \in DOMAIN msgs : i < j => DeliveryTag(msgs[i]) < DeliveryTag(msgs[j])
FifoOf(cs, tag) == IF tag \in DOMAIN cs THEN cs[tag].fifo ELSE <<>>

\* --------------------------------------------------------------- claims

\* C1: for every consumer tag, what has reached a sink of the tag, followed
\* by the message of a send to that sink that waits for room and by what the
\* tag's FIFO still holds, is in the order the deliveries arrived at the
\* dispatcher; messages drained from the FIFO at registration therefore come
\* first and in FIFO order, every later delivery after them, and outside the
\* drain loop nothing waits in the FIFO of a tag that has a sink.
C1_DeliveryOrderPreserved ==
    /\ \A s \in DOMAIN sinks :
          InArrivalOrder(Sent(s) \o InFlight(s) \o FifoOf(consumers, sinks[s].tag))
    /\ \A t \in DOMAIN consumers :
          /\ InArrivalOrder(consumers[t].fifo)
          /\ (IsSome(consumers[t].tx) /\ ~Draining(t)) => consumers[t].fifo = <<>>

\* A sink that first received a drained message and then a later delivery.
C1_Witness ==
    \E s \in DOMAIN sinks :
        /\ sinks[s].drained >= 1
        /\ Len(Sent(s)) > sinks[s].drained
        /\ log = <<"take message", "send">>

\* C2: a delivery (deliver, header, one body frame) for tag T processed while
\* T has no sink is appended to T's FIFO; processing
\* RegisterContentConsumer(T, sink) for a sink whose receiver is alive
\* installs the sink and moves the FIFO, in order and without loss, into it;
\* while the drain loop waits for room in the sink the dispatcher takes
\* nothing off its queues, and when it is back at the select T's FIFO is
\* empty.
C2_BufferedThenDrained ==
    [][ /\ ( /\ FrameStep({"ContentBody"})
             /\ state = "Deliver" /\ IsSome(message_buffer.deliver)
             /\ LET t == Unwrap(message_buffer.deliver).consumer_tag
                IN t \notin DOMAIN consumers \/ consumers[t].tx = NoneV )
           => LET t == Unwrap(message_buffer.deliver).consumer_tag
              IN /\ t \in DOMAIN consumers'
                 /\ consumers'[t].fifo =
                       Append(FifoOf(consumers, t),
                              [deliver |-> message_buffer.deliver,
                               basic_properties |-> message_buffer.basic_properties,
                               content |-> Some(Head(inbound_q).inner)])
                 /\ sinks' = sinks
        /\ (CmdStep("RegisterContentConsumer")
             /\ sinks[Head(mgmt_q).consumer_tx].open)
           => LET t == Head(mgmt_q).consumer_tag
                  tx == Head(mgmt_q).consumer_tx
              IN /\ ~Stopped'
                 /\ consumers'[t].tx = Some(tx)
                 /\ SentOf(sinks', tx) \o InFlightOf(pc', pending', consumers', tx)
                          \o FifoOf(consumers', t)
                       = FifoOf(consumers, t)
                 /\ pc' = "running" => FifoOf(consumers', t) = <<>>
        /\ pc = "drain_send"
           => LET t == Unwrap(pending).to
                  tx == Unwrap(consumers[t].tx)
              IN /\ ~Stopped' => /\ IsPrefix(mgmt_q, mgmt_q')
                                 /\ IsPrefix(inbound_q, inbound_q')
                 /\ (sinks[tx].open /\ sinks'[tx].open) =>
                       /\ ~Stopped'
                       /\ SentOf(sinks', tx)
                             \o InFlightOf(pc', pending', consumers', tx)
                             \o FifoOf(consumers', t)
                          = Sent(tx) \o InFlight(tx) \o FifoOf(consumers, t)
                       /\ pc' = "running" => FifoOf(consumers', t) = <<>>
      ]_vars

\* A registration has moved two buffered messages into its sink and the
\* dispatcher is back at the select.
C2_Witness ==
    \E s \in DOMAIN sinks :
        /\ sinks[s].drained = 2 /\ Len(Sent(s)) = 2
        /\ pc = "running"
        /\ consumers[sinks[s].tag].tx = Some(s)
        /\ consumers[sinks[s].tag].fifo = <<>>

\* C3: the dispatcher takes a frame off the inbound queue only when the
\* management queue is empty; hence, when a basic.get reply or a synchronous
\* reply is processed, no registration issued before the request was sent is
\* still waiting in the management queue.
C3_CommandsBeforeFrames ==
    [][ /\ FrameStep({Head(inbound_q).type}) => mgmt_q = <<>>
        /\ FrameStep({"GetOk", "GetEmpty"}) =>
              \A g \in DOMAIN get_sinks : get_sinks[g].requested =>
                 \A i \in DOMAIN mgmt_q :
                    ~(mgmt_q[i].type = "RegisterGetContentResponder" /\ mgmt_q[i].tx = g)
        /\ FrameStep(RpcHeaders) =>
              \A w \in DOMAIN waiters : waiters[w].requested =>
                 \A i \in DOMAIN mgmt_q :
                    ~(mgmt_q[i].type = "RegisterOneshotResponder"
                      /\ mgmt_q[i].responder = w)
      ]_vars

\* A get sink was installed while the reply to its basic.get was already
\* waiting in the inbound queue.
C3_Witness ==
    /\ selected.branch = "command" /\ selected.frame_waiting
    /\ log = <<"replace get_content_responder">>
    /\ inbound_q # <<>> /\ Head(inbound_q).type \in {"GetOk", "GetEmpty"}
    /\ pc = "running"

\* C4: a synchronous reply frame whose header has a waiter removes the entry
\* from the waiter map and hands this very frame to that waiter (if it still
\* listens) and to nobody else; without a waiter the frame changes neither
\* map nor the state register; either way the dispatcher keeps running. A
\* waiter holds at most one frame, of its own header, and is then no longer
\* in the map.
C4_Step ==
    FrameStep(SyncHeaders) =>
        LET h == Head(inbound_q).method_header
        IN /\ pc' = "running" /\ state' = state /\ consumers' = consumers
           /\ h \in DOMAIN responders =>
                 /\ responders' = MapRemove(responders, h)
                 /\ \A w \in DOMAIN waiters :
                       waiters'[w] =
                          IF w = responders[h] /\ waiters[w].alive
                          THEN [waiters[w] EXCEPT !.got = <<Head(inbound_q)>>]
                          ELSE waiters[w]
           /\ h \notin DOMAIN responders =>
                 responders' = responders /\ waiters' = waiters
C4_AtMostOnce ==
    \A w \in DOMAIN waiters :
        /\ Len(waiters[w].got) <= 1
        /\ waiters[w].got # <<>> =>
              /\ waiters[w].got[1].method_header = waiters[w].header
              /\ \A h \in DOMAIN responders : responders[h] # w
C4_SyncReplyRouted == [][C4_Step /\ C4_AtMostOnce']_vars

\* One reply has reached its waiter and a second one found no waiter.
C4_Witness ==
    /\ log = <<"no responder">> /\ pc = "running"
    /\ \E w \in DOMAIN waiters : waiters[w].got # <<>>


\* C5: a RegisterOneshotResponder for a header whose waiter is registered and
\* unanswered is refused (RpcInFlight: it is not acknowledged), and the first
\* waiter stays in the map with its sender intact.
C5_SecondRegistrationRefused ==
    [][ ( /\ CmdStep("RegisterOneshotResponder")
          /\ Head(mgmt_q).method_header \in DOMAIN responders
          /\ waiters[responders[Head(mgmt_q).method_header]].alive
          /\ waiters[responders[Head(mgmt_q).method_header]].got = <<>>
          /\ waiters[Head(mgmt_q).responder].alive )
        => LET h == Head(mgmt_q).method_header
           IN /\ h \in DOMAIN responders' /\ responders'[h] = responders[h]
              /\ ~waiters'[responders[h]].dropped
              /\ ~waiters'[Head(mgmt_q).responder].acked
      ]_vars

\* C6: when a server channel.close is processed, every registered waiter that
\* still listens receives ChannelClosed with the frame's reply-code and
\* reply-text.
C6_WaitersGetChannelClosed ==
    [][ FrameStep({"CloseChannel"}) =>
          \A h \in DOMAIN responders :
             waiters[responders[h]].alive =>
                waiters'[responders[h]].got =
                   <<[type |-> "ChannelClosed",
                      reply_code |-> Head(inbound_q).reply_code,
                      reply_text |-> Head(inbound_q).reply_text]>>
      ]_vars

\* The rest of the server-close sequence from the send of close-ok on, as
\* the events of one step: close-ok to the writer, the callback's close
\* handler if and only if a callback is registered, then the loop is over,
\* unless the task is parked in the handler.
C7_SendsCloseOk(events) ==
    /\ outgoing = <<>>
    /\ outgoing' = << <<ChannelId, [type |-> "CloseChannelOk"]>> >>
    /\ Len(events) >= 2
    /\ events[1] = "send close-ok"
    /\ IF IsSome(callback)
       THEN /\ events[2] = "callback.close"
            /\ IF pc' = "callback_await" THEN Len(events) = 2
               ELSE events[3] \in {"break", "panic"}
       ELSE events[2] = "break" /\ pc' # "callback_await"

\* The send of close-ok has failed: the writer's receiver is gone, nothing
\* can be enqueued to it, and the events of the step end at the send.
C7_WriterGone(events) == events = <<"panic">>

\* C7: processing a server channel.close does, in this order: open flag :=
\* false, one close-ok frame with the channel's own id to the writer (the
\* only frame the writer has from this dispatcher; the send may first wait
\* for room in the writer's queue), the callback's close handler if and only
\* if a callback is registered (the task may be parked in it), and then the
\* loop is over; from the close on the dispatcher takes nothing more off its
\* queues. A writer whose receiver is gone takes no frame: the sequence then
\* ends at the send, with the flag set, nothing enqueued and the loop over.
C7_Step ==
    /\ FrameStep({"CloseChannel"}) =>
          /\ is_open' = FALSE
          /\ pc' # "running"
          /\ Len(log') >= 1 /\ log'[1] = "set_open_state(false)"
          /\ IF pc' = "outgoing_send" \/ C7_WriterGone(Tail(log'))
             THEN outgoing' = outgoing
             ELSE C7_SendsCloseOk(Tail(log'))
    /\ (pc = "outgoing_send" /\ pc' # pc) =>
          /\ ~is_open /\ pc' # "running"
          /\ IF C7_WriterGone(log') THEN outgoing' = outgoing
             ELSE C7_SendsCloseOk(log')
    /\ (pc = "callback_await" /\ pc' # pc) =>
          /\ ~is_open /\ pc' \notin {"running", "outgoing_send"}
          /\ outgoing' = outgoing
          /\ Len(log') >= 2 /\ log'[2] \in {"break", "panic"}
    /\ (~is_open /\ ~Stopped' /\ pc # "running") =>
          /\ IsPrefix(mgmt_q, mgmt_q') /\ IsPrefix(inbound_q, inbound_q')
C7_ServerCloseSequence == [][C7_Step]_vars

\* A server close was processed with a callback registered: the flag is
\* false, the writer has the one close-ok of this channel, the callback's
\* close handler was called and returned, and the task has left the loop.
C7_Witness ==
    /\ pc = "exited" /\ ~is_open
    /\ outgoing = << <<ChannelId, [type |-> "CloseChannelOk"]>> >>
    /\ log = <<"set_open_state(false)", "send close-ok", "callback.close",
               "break", "send UnregisterChannelResource">>

\* C8: once a close-ok is among the frames the dispatcher has given to the
\* writer, no step adds an outbound frame or sends a ConsumerMessage to a sink.
CloseOkSent == \E i \in DOMAIN outgoing : outgoing[i][2].type = "CloseChannelOk"
C8_CloseOkIsLast ==
    [][ CloseOkSent =>
          /\ outgoing' = outgoing
          /\ \A s \in DOMAIN sinks : Range(SentOf(sinks', s)) \subseteq Range(Sent(s))
      ]_vars

\* close-ok went out on a channel whose consumer had received a message.
C8_Witness ==
    /\ CloseOkSent /\ pc # "running"
    /\ \E s \in DOMAIN sinks : sinks[s].got # <<>>

\* The task's send to the connection manager failed: its receiver was gone.
ManagerGone == log # <<>> /\ log[Len(log)] = "send failed"

\* C9: while the dispatcher task is alive no UnregisterChannelResource has
\* been sent, and once it has stopped, in whatever way, exactly one has been
\* sent, for its channel id (unless the connection manager itself is gone).
C9_UnregisterOnEveryExit ==
    /\ ~Stopped => conn_mgmt = <<>>
    /\ (Stopped /\ ~ManagerGone) =>
          conn_mgmt = <<[type |-> "UnregisterChannelResource", channel_id |-> ChannelId]>>

\* C10: the step that processes CloseChannelOk with a waiter registered for
\* its header gives the frame to that waiter (if it still listens), sets the
\* open flag to false and ends the dispatcher.
C10_CloseOkEndsDispatcher ==
    [][ ( /\ FrameStep({"CloseChannelOk"})
          /\ Head(inbound_q).method_header \in DOMAIN responders )
        => LET w == responders[Head(inbound_q).method_header]
           IN /\ waiters[w].alive => waiters'[w].got = <<Head(inbound_q)>>
              /\ is_open' = FALSE
              /\ pc' # "running"
      ]_vars

\* ------------------------------------------------- content reassembly
\* The body frame at the head of the inbound queue is not the last of its
\* body: the next frame in the queue is a body frame too, or the broker has
\* not yet sent the rest of the body.
MoreBodyFollows ==
    IF Len(inbound_q) >= 2 THEN inbound_q[2].type = "ContentBody"
    ELSE wire.kind = "body"

\* Every ConsumerMessage the dispatcher has emitted and that still exists.
AllMessages ==
    UNION {Range(Sent(s) \o InFlight(s)) : s \in DOMAIN sinks}
    \cup UNION {Range(consumers[t].fifo) : t \in DOMAIN consumers}

\* The message id a body frame belongs to, and the number of body bytes of
\* that message sent up to and including the frame.
BodyId(inner) == inner[1] \div 10
BodyUpTo(inner) == inner[Len(inner)] % 10

\* C11: a content-body frame of a delivery never stops the dispatcher; while
\* more body frames of the delivery are to come it emits no ConsumerMessage;
\* the last body frame emits the one message of the delivery, whose content
\* is all the body bytes of the delivery in arrival order.
C11_OneMessageAfterLastBody ==
    [][ (FrameStep({"ContentBody"}) /\ state = "Deliver") =>
          LET inner == Head(inbound_q).inner
          IN /\ ~Stopped'
             /\ MoreBodyFollows => AllMessages' \subseteq AllMessages
             /\ ~MoreBodyFollows =>
                   \A m \in AllMessages' \ AllMessages :
                      /\ DeliveryTag(m) = BodyId(inner)
                      /\ m.content = Some([i \in 1..BodyUpTo(inner) |->
                                              BodyByte(BodyId(inner), i)])
      ]_vars

\* C12: every content-body frame of a basic.get reply is forwarded to the
\* registered basic-get sink (queued in it, or held by the send that waits
\* for room) and the dispatcher goes on; the sink stays registered while more
\* body frames are to come and is cleared by the last body frame.
C12_GetBodyForwardedWhole ==
    [][ (FrameStep({"ContentBody"}) /\ state = "GetOk") =>
          /\ ~Stopped'
          /\ IsSome(get_content_responder) =>
                LET g == Unwrap(get_content_responder)
                IN /\ get_sinks[g].open =>
                         GetTrack(get_sinks', pc', pending', g) =
                            Append(GetTrack(get_sinks, pc, pending, g),
                                   Head(inbound_q))
                   /\ get_content_responder' =
                         IF MoreBodyFollows THEN get_content_responder ELSE NoneV
      ]_vars

\* C13: processing RegisterGetContentResponder installs the command's sink as
\* the basic-get sink; processing a GetEmpty frame while a sink is installed
\* forwards that frame to the sink (if its receiver is alive: the frame is
\* queued in the sink, after the send has waited for room if the sink was
\* full), leaves the dispatcher without a basic-get sink and alive; and a
\* dispatcher without a basic-get sink gets one only by processing a
\* registration.
C13_GetSinkClearedByGetEmpty ==
    [][ /\ CmdStep("RegisterGetContentResponder") =>
              get_content_responder' = Some(Head(mgmt_q).tx)
        /\ (FrameStep({"GetEmpty"}) /\ IsSome(get_content_responder)) =>
              LET g == Unwrap(get_content_responder)
              IN /\ get_sinks[g].open =>
                       GetTrack(get_sinks', pc', pending', g) =
                          Append(GetTrack(get_sinks, pc, pending, g),
                                 Head(inbound_q))
                 /\ \A o \in DOMAIN get_sinks \ {g} : get_sinks'[o] = get_sinks[o]
                 /\ get_content_responder' = NoneV
                 /\ state' = "GetEmpty"
                 /\ ~Stopped'
        /\ (pc = "get_send" /\ pc' = "running") =>
              LET g == Unwrap(pending).to
              IN get_sinks[g].open =>
                    get_sinks'[g].q = Append(get_sinks[g].q, Unwrap(pending).item)
        /\ (get_content_responder = NoneV /\ get_content_responder' # NoneV) =>
              CmdStep("RegisterGetContentResponder")
      ]_vars

\* A GetEmpty frame has just been forwarded to the sink of a pending basic.get.
C13_Witness ==
    /\ log = <<"state = GetEmpty", "take get_content_responder", "send">>
    /\ get_content_responder = NoneV /\ pc = "running"
    /\ \E g \in DOMAIN get_sinks :
          get_sinks[g].requested /\ GetSent(g) = <<[type |-> "GetEmpty"]>>

\* C14: a content header or content body frame processed in state Return
\* leaves the dispatcher running, and the frame that completes the returned
\* message (a header declaring body-size 0, or the last body frame) puts the
\* state register back to Initial.
C14_ReturnContentReassembled ==
    [][ (FrameStep({"ContentHeader", "ContentBody"}) /\ state = "Return") =>
          /\ ~Stopped'
          /\ ( \/ Head(inbound_q).type = "ContentHeader" /\ Head(inbound_q).body_size = 0
               \/ Head(inbound_q).type = "ContentBody" /\ ~MoreBodyFollows )
             => state' = "Initial"
      ]_vars

\* The reader is suspended in its send to the slow channel's full inbound
\* queue, and that queue cannot empty: the channel's dispatcher is itself
\* suspended in its send to the full sink, which nobody drains.
ReaderStalled ==
    /\ bp_reader = Some(SlowChannel)
    /\ bp_inbound[SlowChannel] = BpCap
    /\ bp_disp[SlowChannel]
    /\ bp_sink[SlowChannel] = BpCap

\* C15: a consumer that never drains its sink does not stall the reader:
\* while a frame for another channel waits on the socket, the reader is not
\* stuck behind the slow channel.
C15_SlowConsumerStallsOnlyItsChannel ==
    (\E i \in DOMAIN bp_socket : bp_socket[i] # SlowChannel) => ~ReaderStalled

\* C16: a cancelled API call does not end the dispatcher. Processing the
\* RegisterOneshotResponder of a call that was already cancelled, or the
\* synchronous reply for a waiter that was cancelled after registration,
\* leaves the dispatcher running; processing the close-ok of a cancelled
\* channel close does not abort the dispatcher with a panic.
C16_CancelNeverStopsDispatcher ==
    [][ /\ ( /\ CmdStep("RegisterOneshotResponder")
             /\ ~waiters[Head(mgmt_q).responder].alive )
           => pc' = "running"
        /\ ( /\ FrameStep(SyncHeaders)
             /\ Head(inbound_q).method_header \in DOMAIN responders
             /\ ~waiters[responders[Head(inbound_q).method_header]].alive )
           => pc' = "running"
        /\ ( /\ FrameStep({CloseChannelOkHeader})
             /\ Head(inbound_q).method_header \in DOMAIN responders
             /\ ~waiters[responders[Head(inbound_q).method_header]].alive )
           => pc' # "panicked"
      ]_vars

\* The waiter's sender is stored in the waiter map; its call was cancelled.
InMap(w) == \E h \in DOMAIN responders : responders[h] = w
Cancelled(w) == w \in DOMAIN waiters /\ ~waiters[w].alive

\* C17: whenever the call of a registered waiter has been cancelled, the
\* waiter's entry eventually leaves the waiter map, whether or not a reply
\* frame for it arrives.
C17_CancelledWaiterRemoved ==
    \A w \in 1..MaxCmds : (Cancelled(w) /\ InMap(w)) ~> ~InMap(w)

\* A body frame that completes a delivery is being processed.
DeliveryStep ==
    FrameStep({"ContentBody"}) /\ state = "Deliver" /\ IsSome(message_buffer.deliver)
\* The content header that completes a delivery without body (body-size 0:
\* no body frame follows) is being processed.
BodylessDeliveryStep ==
    /\ FrameStep({"ContentHeader"}) /\ state = "Deliver"
    /\ IsSome(message_buffer.deliver)
    /\ Head(inbound_q).body_size = 0

\* C18: the consumer map gains the entry of tag T when the dispatcher
\* processes a registration for T or a delivery for T, with or without
\* body, and at no other step;
\* processing UnregisterContentConsumer(T) removes T's entry, sink and FIFO
\* together, leaves every other entry alone, and is the only step of a
\* live dispatcher that removes an entry; a delivery for a tag without an
\* entry creates one with no sink whose FIFO holds just that message.
C18_Step ==
    /\ CmdStep("UnregisterContentConsumer") =>
          /\ consumers' = MapRemove(consumers, Head(mgmt_q).consumer_tag)
          /\ pc' = "running"
    /\ (CmdStep("RegisterContentConsumer") /\ ~Stopped') =>
          DOMAIN consumers' = DOMAIN consumers \cup {Head(mgmt_q).consumer_tag}
    /\ DeliveryStep =>
          LET t == Unwrap(message_buffer.deliver).consumer_tag
          IN /\ ~Stopped'
             /\ DOMAIN consumers' = DOMAIN consumers \cup {t}
             /\ t \notin DOMAIN consumers =>
                   /\ consumers'[t] =
                         [fifo |-> <<TakeMessage(message_buffer, Head(inbound_q).inner)>>,
                          tx |-> NoneV]
                   /\ sinks' = sinks
    /\ BodylessDeliveryStep =>
          LET t == Unwrap(message_buffer.deliver).consumer_tag
          IN /\ ~Stopped'
             /\ DOMAIN consumers' = DOMAIN consumers \cup {t}
             /\ t \notin DOMAIN consumers => Len(consumers'[t].fifo) = 1
    /\ (~Stopped' /\ DOMAIN consumers' # DOMAIN consumers) =>
          \/ CmdStep("UnregisterContentConsumer")
          \/ CmdStep("RegisterContentConsumer")
          \/ DeliveryStep
          \/ BodylessDeliveryStep
C18_ConsumerEntryLifecycle == [][C18_Step]_vars

\* C19: constructing a ShortStr from a string succeeds exactly when the
\* string is at most 255 bytes long in UTF-8; the ShortStr then stores that
\* byte length and the string itself; a longer string yields the conversion
\* error and no ShortStr.
C19_ShortStrFitsU8 ==
    (ty_in.op = "ShortStr::try_from" /\ IsSome(ty_out)) =>
        LET s == ty_in.arg
            r == Unwrap(ty_out)
        IN /\ r.ok <=> s.w * s.n <= 255
           /\ r.ok => r.val = [len |-> s.w * s.n, text |-> s]
           /\ ~r.ok => r = Err

\* A string of 85 three-byte characters, 255 bytes, has become a ShortStr.
C19_Witness ==
    /\ ty_in = [op |-> "ShortStr::try_from", arg |-> [w |-> 3, n |-> 85]]
    /\ ty_out = Some(Ok([len |-> 255, text |-> [w |-> 3, n |-> 85]]))

\* The size of a field value on the wire: fixed per scalar tag, a four-byte
\* length and the payload for S, x, A and F, five bytes for D, none for V.
\* Sizes are usize values, as in the code.
TextBytes(text) == Times(usize(text.n), text.w)
RECURSIVE EncodedSize(_), EncodedEntries(_), EncodedItems(_)
EncodedSize(value) ==
    CASE value.tag \in {"t", "b", "B"} -> usize(1)
      [] value.tag \in {"s", "u"} -> usize(2)
      [] value.tag \in {"I", "i", "f"} -> usize(4)
      [] value.tag \in {"l", "d", "T"} -> usize(8)
      [] value.tag = "D" -> usize(1 + 4)
      [] value.tag = "V" -> usize(0)
      [] value.tag = "S" -> Plus(usize(4), TextBytes(value.v.text))
      [] value.tag = "x" -> Plus(usize(4), Times(usize(value.v.bytes.n), value.v.bytes.chunk))
      [] value.tag = "A" -> Plus(usize(4), EncodedItems(value.v.values))
      [] value.tag = "F" -> Plus(usize(4), EncodedEntries(value.v.map))
EncodedItems(values) ==
    IF values = <<>> THEN usize(0)
    ELSE Plus(Plus(usize(1), EncodedSize(Head(values))), EncodedItems(Tail(values)))
EncodedEntries(map) ==
    IF DOMAIN map = {} THEN usize(0)
    ELSE LET k == CHOOSE k \in DOMAIN map : TRUE
         IN Plus(Plus(Plus(Plus(usize(1), TextBytes(k.text)), usize(1)),
                      EncodedSize(map[k])), EncodedEntries(MapRemove(map, k)))

\* C20: FieldValue::len returns the encoded size of the value, for every
\* variant.
C20_LenIsEncodedSize ==
    (ty_in.op = "FieldValue::len" /\ IsSome(ty_out)) =>
        Unwrap(ty_out) = EncodedSize(ty_in.arg)

\* C21: the declared byte length of a table (len_in_bytes), also of one
\* changed through as_mut and of one holding nested tables or arrays, is the
\* sum over its entries of 1 + name byte length + 1 + encoded size of the
\* value; that of an empty table is 0.
C21_DeclaredLengthIsEntrySum ==
    (ty_in.op = "FieldTable::len_in_bytes" /\ ty_out # NoneV) =>
        LET out == Unwrap(ty_out)
        IN /\ out.len = EncodedEntries(out.table.map)
           /\ out.table.map = EmptyMap => out.len = usize(0)

\* The payload byte length of the native value a constructor is given.
Payload(in) ==
    CASE in.op \in {"ShortStr::try_from", "LongStr::try_from"} -> TextBytes(in.arg)
      [] in.op = "ByteArray::try_from" -> Times(usize(in.arg.n), in.arg.chunk)
      [] in.op = "FieldArray::try_from" -> EncodedItems(in.arg)
      [] in.op = "FieldTable::try_from" -> EncodedEntries(in.arg)
FourGiB == [hi |-> Base, lo |-> 0]

\* C22: LongStr, ByteArray, FieldArray and FieldTable are constructed exactly
\* from payloads of at most 2^32 - 1 bytes, so that the payload of every
\* constructed value fits u32; a payload of 2^32 bytes or more gets the
\* length overflow error and no value.
C22_PayloadFitsU32 ==
    (/\ ty_in.op \in {"LongStr::try_from", "ByteArray::try_from",
                      "FieldArray::try_from", "FieldTable::try_from"}
     /\ ty_out # NoneV) =>
        LET r == Unwrap(ty_out)
        IN IF AtMost(FourGiB, Payload(ty_in)) THEN r = Err ELSE r.ok

\* The length prefix a constructed value stores, as a usize.
StoredLen(op, value) ==
    IF op = "ShortStr::try_from" THEN usize(value.len) ELSE value.len

\* C23: a string, byte vector or vector of field values converted into
\* ShortStr, LongStr, ByteArray or FieldArray and back is the original value,
\* in the same order, and the stored length prefix is the payload byte length
\* of that value (for FieldArray the sum of 1 + encoded size over its
\* elements).
C23_RoundTripAndLengthPrefix ==
    (/\ ty_in.op \in {"ShortStr::try_from", "LongStr::try_from",
                      "ByteArray::try_from", "FieldArray::try_from"}
     /\ ty_back # NoneV) =>
        /\ Unwrap(ty_back) = ty_in.arg
        /\ StoredLen(ty_in.op, Unwrap(ty_out).val) = Payload(ty_in)

\* ------------------------------------------------------- close and errors

\* C24: once close-ok has gone to the writer and the registered callback's
\* close handler is invoked, the task goes on to the dispatcher's remaining
\* steps whatever the handler does, return or panic, at once or after it had
\* parked the task: the loop is left and the task sends
\* UnregisterChannelResource for the channel (or waits for room to send it);
\* it is not aborted.
C24_CallbackPanicCaught ==
    [][ /\ (outgoing' # outgoing /\ IsSome(callback)) =>
             /\ pc' \in {"callback_await", "exited", "conn_mgmt_send"}
             /\ pc' = "exited" => conn_mgmt' # conn_mgmt \/ ManagerGone'
        /\ (pc = "callback_await" /\ pc' # pc) =>
             /\ pc' \in {"exited", "conn_mgmt_send"}
             /\ pc' = "exited" => conn_mgmt' # conn_mgmt \/ ManagerGone'
      ]_vars

\* C25: the step that processes the final content-body frame of a delivery
\* or of a basic.get reply leaves the state register Initial and the
\* assembly buffer empty.
C25_InitialAfterFinalBody ==
    [][ ( /\ FrameStep({"ContentBody"})
          /\ state \in {"Deliver", "GetOk"}
          /\ ~MoreBodyFollows )
        => state' = "Initial" /\ message_buffer' = EmptyBuffer
      ]_vars

\* A method frame (any frame but a content header or body) is taken off the
\* inbound queue.
MethodFrameStep ==
    /\ pc = "running" /\ inbound_q # <<>>
    /\ Head(inbound_q).type \notin {"ContentHeader", "ContentBody"}
    /\ inbound_q' \in {Tail(inbound_q), <<>>}
    /\ selected'.branch = "frame"

\* C28: every delivery is emitted as one ConsumerMessage of its own Deliver
\* method, properties and body. When a method frame is processed no earlier
\* delivery is still waiting in the assembly buffer (a delivery of body-size
\* 0 was emitted, not dropped or merged with the next), and every message
\* that exists carries the Deliver method, the properties and body bytes of
\* one and the same delivery.
C28_EveryDeliveryEmitted ==
    [][ /\ MethodFrameStep => message_buffer.deliver = NoneV
        /\ \A m \in AllMessages' :
              /\ IsSome(m.deliver)
              /\ m.basic_properties = Some(DeliveryTag(m))
              /\ IsSome(m.content)
              /\ BodyId(Unwrap(m.content)) = DeliveryTag(m)
      ]_vars

\* C29: a closed consumer sink never ends the dispatcher. Registering a sink
\* whose receiver is already closed, with or without buffered messages to
\* drain, and forwarding a delivery to a registered sink whose receiver is
\* closed both leave the dispatcher running, and the closed sink receives
\* nothing; a sink closed while the drain loop waits for room in it does not
\* abort the dispatcher either.
C29_ClosedSinkNeverStopsDispatcher ==
    [][ /\ ( /\ CmdStep("RegisterContentConsumer")
             /\ ~sinks[Head(mgmt_q).consumer_tx].open )
           => pc' = "running" /\ sinks' = sinks
        /\ ( /\ DeliveryStep
             /\ LET tag == Unwrap(message_buffer.deliver).consumer_tag
                IN /\ tag \in DOMAIN consumers
                   /\ IsSome(consumers[tag].tx)
                   /\ ~sinks[Unwrap(consumers[tag].tx)].open )
           => pc' = "running" /\ sinks' = sinks
        /\ ( /\ pc = "drain_send"
             /\ ~sinks[Unwrap(consumers[Unwrap(pending).to].tx)].open )
           => pc' # "panicked"
      ]_vars

\* C30: whenever the dispatcher has exited, the channel's open flag is false.
C30_ExitedMeansClosed == pc = "exited" => ~is_open

\* ------------------------------------------------ routing and commands

\* C26: every ConsumerMessage is where the consumer tag of its own Deliver
\* method says: what has reached a sink registered for a tag or waits to be
\* sent to it, and what the FIFO of a tag holds, are messages delivered for
\* that tag only.
C26_RoutedByOwnTag ==
    /\ \A s \in DOMAIN sinks : \A m \in Range(Sent(s) \o InFlight(s)) :
          IsSome(m.deliver) /\ Unwrap(m.deliver).consumer_tag = sinks[s].tag
    /\ \A t \in DOMAIN consumers : \A m \in Range(consumers[t].fifo) :
          IsSome(m.deliver) /\ Unwrap(m.deliver).consumer_tag = t

\* Two consumer tags on the channel have each been delivered a message: one
\* reached the sink of its tag, the other waits in the FIFO of the other tag.
C26_Witness ==
    \E s \in DOMAIN sinks : \E t \in DOMAIN consumers :
        /\ sinks[s].tag # t
        /\ sinks[s].got # <<>>
        /\ consumers[t].fifo # <<>>

\* A management command is taken off the management queue, or the drain
\* loop of a registration goes on after a send that waited for room.
AnyCmdStep ==
    \/ /\ pc = "running" /\ mgmt_q # <<>>
       /\ mgmt_q' \in {Tail(mgmt_q), <<>>}
       /\ selected'.branch = "command"
    \/ pc = "drain_send" /\ pc' # pc

\* C27: processing a management command, of any of the five kinds, leaves
\* the state register as it is and, in a dispatcher that goes on, the
\* assembly buffer too: the parts of a delivery stored before the command are
\* the parts the message is later built from.
C27_CommandsKeepAssembly ==
    [][ AnyCmdStep =>
          /\ state' = state
          /\ ~Stopped' => message_buffer' = message_buffer
      ]_vars

\* A command was processed between the method frame and the body frame of a
\* delivery: the buffer still holds the Deliver method.
C27_Witness ==
    /\ selected.branch = "command" /\ pc = "running"
    /\ state = "Deliver"
    /\ IsSome(message_buffer.deliver)
====
